---- MODULE Spec2Model ----
(***************************************************************************)
(* Model of the file-backed record store of the personal assistant:        *)
(*   HeapStorage        (storage/heap_storage.py)  one JSON file per record *)
(*   IndexManager       (storage/index_manager.py) trie / hash / date index *)
(*   AddressBookStorage (storage/address_book.py)  contacts repository      *)
(*   NotesStorage       (storage/notes_storage.py) notes repository         *)
(*   BaseStorage        (storage/base_storage.py)  rebuild_indexes          *)
(*                                                                         *)
(* Python strings are sequences of one-character strings, so that lower(), *)
(* strip(), startswith() and slicing are computed.  A file is a sequence   *)
(* of JSON tokens, so that a half-written file is a proper prefix of the   *)
(* complete text and json.load is a parse that can fail.                   *)
(***************************************************************************)
EXTENDS Integers, Sequences, FiniteSets, TLC

VARIABLES
    heap_files,   \* data_root: path -> text of the file
    index_files,  \* index_root: bucket path -> dict stored in the bucket file (a path
                  \* that starts with "/" is a file outside index_root)
    uuid_count,   \* number of uuid4() values drawn so far
    removed,      \* history: uuids whose remove_contact/delete_note returned True
    last,         \* history: the last heap call made by a direct client, its inputs and result
    wr,           \* a thread inside HeapStorage._save_atomic
    rd,           \* a thread inside HeapStorage._load / list_all
    locks,        \* IndexManager._locks: str(file_path) -> Lock object
    lock_objs,    \* the Lock objects created so far: object -> its holder, or "free"
    threads,      \* threads of an embedding application, each inside one call or idle
    hist,         \* history: what the calls of the threads were given and have written
    book,         \* AddressBook.data of the in-memory book: name -> Record
    args          \* ArgsParser.args: the deque of the arguments not consumed yet

thvars == <<locks, lock_objs, threads, hist>>

mdvars == <<book, args>>

vars == <<heap_files, index_files, uuid_count, removed, last, wr, rd, thvars, mdvars>>

\* ---------------------------------------------------------------- bounds
\* uuid4() is drawn at most MaxIds times in one behaviour
MaxIds == 2

\* _save_atomic is entered at most MaxSaves times in one behaviour of SpecAtomic
MaxSaves == 2

\* each thread of SpecLock makes at most MaxCalls index calls in one behaviour
MaxCalls == 2

\* a Record of SpecBook holds at most MaxPhones phones
MaxPhones == 2

\* an ArgsParser of SpecParser is given at most MaxArgs arguments
MaxArgs == 3

\* ---------------------------------------------------------------- Python values
\* None, as returned by _load for a missing or unparsable record file
None == [none |-> TRUE]

\* {} (an empty dict), also the content of a missing or unparsable bucket file
EmptyDict == <<>>

\* str.lower() on one character
LowerChar(c) ==
    CASE c = "J" -> "j"
      [] c = "O" -> "o"
      [] c = "N" -> "n"
      [] OTHER -> c

\* str.lower()
Lower(s) == [i \in 1..Len(s) |-> LowerChar(s[i])]

IsSpace(c) == c = " "

\* str.lstrip()
RECURSIVE LStrip(_)
LStrip(s) == IF s # <<>> /\ IsSpace(Head(s)) THEN LStrip(Tail(s)) ELSE s

\* str.rstrip()
RECURSIVE RStrip(_)
RStrip(s) == IF s # <<>> /\ IsSpace(s[Len(s)]) THEN RStrip(SubSeq(s, 1, Len(s) - 1)) ELSE s

\* str.strip()
Strip(s) == RStrip(LStrip(s))

\* value.lower().strip(), the key under which a trie index stores a value
Normalize(value) == Strip(Lower(value))

\* StartsWith changed: only the first two characters are compared
StartsWithTwo(key, prefix) ==
    /\ Len(prefix) >= 2 /\ Len(key) >= 2
    /\ SubSeq(key, 1, 2) = SubSeq(prefix, 1, 2)

\* key.startswith(prefix)
StartsWith(key, prefix) ==
    /\ Len(prefix) <= Len(key)
    /\ SubSeq(key, 1, Len(prefix)) = prefix

\* `not value or not value.strip()`: the guard of every trie/hash add, remove and exact search
IsBlank(value) == value = <<>> \/ Strip(value) = <<>>

\* uuid in list
InList(x, list) == \E i \in 1..Len(list) : list[i] = x

\* list.remove(x): removes the first occurrence
RECURSIVE ListRemove(_, _)
ListRemove(list, x) ==
    IF list = <<>> THEN <<>>
    ELSE IF Head(list) = x THEN Tail(list)
    ELSE <<Head(list)>> \o ListRemove(Tail(list), x)

\* d with d[k] = v assigned
DictSet(d, k, v) == (k :> v) @@ d

\* del d[k]
DictDel(d, k) == [x \in DOMAIN d \ {k} |-> d[x]]

\* Statements run one after the other: `rest` is applied to the index files that the
\* statements before it have left, once these have run to completion.
Then(ix, rest(_)) == IF ix = <<>> THEN rest(<<>>) ELSE rest(ix)

\* str(uuid.uuid4()): the n-th value drawn; values never repeat
Uuid4(n) == "u" \o ToString(n)

\* ---------------------------------------------------------------- JSON text
\* the order in which json.dump writes the keys of a document
KeyOrder ==
    <<"first_name", "last_name", "phones", "emails", "note_ids",
      "title", "content", "tags", "contact_ids",
      "uuid", "created_at", "updated_at">>

\* the "key": value items of a document, in the order of writing
RECURSIVE DumpItems(_, _)
DumpItems(d, keys) ==
    IF keys = <<>> THEN <<>>
    ELSE (IF Head(keys) \in DOMAIN d THEN << <<Head(keys), d[Head(keys)]>> >> ELSE <<>>)
         \o DumpItems(d, Tail(keys))

\* json.dump(data, f): the complete text of a document
JsonDump(d) == << <<"{">> >> \o DumpItems(d, KeyOrder) \o << <<"}">> >>

\* whether json.load accepts the text (otherwise it raises JSONDecodeError)
JsonParses(text) ==
    /\ Len(text) >= 2
    /\ text[1] = <<"{">>
    /\ text[Len(text)] = <<"}">>
    /\ \A i \in 2..(Len(text) - 1) : Len(text[i]) = 2

\* json.load(f) on a text that parses
JsonLoad(text) ==
    [k \in {text[i][1] : i \in 2..(Len(text) - 1)} |->
        text[CHOOSE i \in 2..(Len(text) - 1) : text[i][1] = k][2]]

\* ---------------------------------------------------------------- HeapStorage
\* data_root / entity_type / f"{entity_uuid}.json"
GetFilePath(entity_type, entity_uuid) == <<entity_type, <<entity_uuid, ".json">>>>

\* StartsWithDot changed: no name is taken to be hidden
StartsWithDotNever(name) == FALSE

\* file_path.name.startswith('.')
StartsWithDot(name) == name[1] = "."

\* the glob pattern "*.json"
MatchesJsonGlob(name) == name[Len(name)] = ".json"

\* _save_atomic when no step of it fails: the temporary file is written and renamed
\* onto file_path, which then holds the complete text
SaveAtomic(hf, file_path, data) == (file_path :> JsonDump(data)) @@ hf

\* _load: None when the file is missing or does not parse
Load(hf, file_path) ==
    IF file_path \notin DOMAIN hf THEN None
    ELSE IF JsonParses(hf[file_path]) THEN JsonLoad(hf[file_path])
    ELSE None

\* StampContact changed: a uuid that the input holds is kept
StampContactKeepsUuid(contact_data, uuid, t1, t2) ==
    ("created_at" :> t1) @@ ("updated_at" :> t2) @@ contact_data @@ ("uuid" :> uuid)

\* create_contact lines 118-120: uuid and both timestamps are always assigned
StampContact(contact_data, uuid, t1, t2) ==
    ("uuid" :> uuid) @@ ("created_at" :> t1) @@ ("updated_at" :> t2) @@ contact_data

\* create_note lines 232-235: created_at is assigned only when the caller gave none
StampNote(note_data, uuid, t1, t2) ==
    ("uuid" :> uuid) @@ ("updated_at" :> t2)
        @@ (IF "created_at" \in DOMAIN note_data THEN note_data ELSE ("created_at" :> t1) @@ note_data)

\* create_contact(contact_data): uuid is the uuid4() drawn, t1 and t2 the two datetime.now() read
HeapCreateContact(hf, contact_data, uuid, t1, t2) ==
    LET data == StampContact(contact_data, uuid, t1, t2)
    IN  [files |-> SaveAtomic(hf, GetFilePath("contacts", uuid), data), ret |-> data]

\* HeapCreateNote changed: the document is written before it is stamped
HeapCreateNoteSavesInput(hf, note_data, uuid, t1, t2) ==
    [files |-> SaveAtomic(hf, GetFilePath("notes", uuid), note_data),
     ret |-> StampNote(note_data, uuid, t1, t2)]

\* create_note(note_data)
HeapCreateNote(hf, note_data, uuid, t1, t2) ==
    LET data == StampNote(note_data, uuid, t1, t2)
    IN  [files |-> SaveAtomic(hf, GetFilePath("notes", uuid), data), ret |-> data]

\* dict.get(key, default)
DictGet(d, k, default) == IF k \in DOMAIN d THEN d[k] ELSE default

\* AddMetadata changed: created_at is stamped anew
AddMetadataRestamps(existing, new_data, t1, t2) ==
    ("uuid" :> DictGet(existing, "uuid", None))
        @@ ("created_at" :> t2)
        @@ ("updated_at" :> t2)
        @@ new_data

\* _add_metadata(existing, new_data): t1 is the datetime.now() read for the default of
\* created_at, t2 the one read for updated_at
AddMetadata(existing, new_data, t1, t2) ==
    ("uuid" :> DictGet(existing, "uuid", None))
        @@ ("created_at" :> DictGet(existing, "created_at", t1))
        @@ ("updated_at" :> t2)
        @@ new_data

\* update_contact / update_note of HeapStorage (the two bodies are the same but for the
\* directory).  ret is "False" when the file does not exist, "AttributeError" when it
\* exists but does not parse (existing is None and existing.get raises), else "True".
HeapUpdate(hf, entity_type, uuid, new_data, t1, t2) ==
    LET file_path == GetFilePath(entity_type, uuid)
        existing == Load(hf, file_path)
    IN  IF file_path \notin DOMAIN hf THEN [files |-> hf, ret |-> "False", data |-> new_data]
        ELSE IF existing = None THEN [files |-> hf, ret |-> "AttributeError", data |-> new_data]
        ELSE LET data == AddMetadata(existing, new_data, t1, t2)
             IN  [files |-> SaveAtomic(hf, file_path, data), ret |-> "True", data |-> data]

HeapUpdateContact(hf, contact_uuid, contact_data, t1, t2) ==
    HeapUpdate(hf, "contacts", contact_uuid, contact_data, t1, t2)

HeapUpdateNote(hf, note_uuid, note_data, t1, t2) ==
    HeapUpdate(hf, "notes", note_uuid, note_data, t1, t2)

\* HeapDelete changed: "True" is returned but the file is left in place
HeapDeleteKeepsFile(hf, entity_type, uuid, unlink_fails) ==
    IF GetFilePath(entity_type, uuid) \notin DOMAIN hf THEN [files |-> hf, ret |-> "False"]
    ELSE [files |-> hf, ret |-> "True"]

\* delete_contact / delete_note of HeapStorage: "False" when the file does not exist or
\* unlink raises OSError (unlink_fails), else the file is removed and "True"
HeapDelete(hf, entity_type, uuid, unlink_fails) ==
    LET file_path == GetFilePath(entity_type, uuid)
    IN  IF file_path \notin DOMAIN hf THEN [files |-> hf, ret |-> "False"]
        ELSE IF unlink_fails THEN [files |-> hf, ret |-> "False"]
        ELSE [files |-> [p \in DOMAIN hf \ {file_path} |-> hf[p]], ret |-> "True"]

\* read_contact / read_note
HeapRead(hf, entity_type, uuid) == Load(hf, GetFilePath(entity_type, uuid))

\* list_all(entity_type): every "*.json" file of the directory whose name does not start
\* with '.', loaded; None and empty documents are skipped.  The result is given as a set
\* (the order of the list is the directory order).
ListAll(hf, entity_type) ==
    LET paths == {p \in DOMAIN hf :
                    /\ p[1] = entity_type
                    /\ MatchesJsonGlob(p[2])
                    /\ ~StartsWithDot(p[2])}
        loaded == {Load(hf, p) : p \in paths}
    IN  {e \in loaded : e # None /\ DOMAIN e # {}}

\* ---------------------------------------------------------------- IndexManager
INDEX_CONTACT_FIRST_NAME == "contact_first_name"
INDEX_CONTACT_LAST_NAME == "contact_last_name"
INDEX_CONTACT_PHONE == "contact_phone"
INDEX_CONTACT_EMAIL == "contact_email"
INDEX_NOTE_TITLE == "note_title"
INDEX_NOTE_TAG == "note_tag"
INDEX_NOTE_CREATION_DATE == "note_creation_date"

CONTACT_INDEXES ==
    {INDEX_CONTACT_FIRST_NAME, INDEX_CONTACT_LAST_NAME, INDEX_CONTACT_PHONE, INDEX_CONTACT_EMAIL}

NOTE_INDEXES == {INDEX_NOTE_TITLE, INDEX_NOTE_TAG, INDEX_NOTE_CREATION_DATE}

\* hashlib.sha1(value.encode('utf-8')).hexdigest() of the values the model uses, written
\* as <<digest[:2], digest[2:4], digest[4:]>>.  "161" and "244" share their first four
\* hex characters.
Sha1Hex(value) ==
    CASE value = <<"1", "6", "1">> -> <<"01", "59", "a99ed28b0581890608d24ada9decc4874197">>
      [] value = <<"2", "4", "4">> -> <<"01", "59", "2d51db5afd0165cb73baca5c0b340c4889f1">>
      [] value = <<"7">> -> <<"90", "2b", "a3cda1883801594b6e1b452790cc53948fda">>
      [] value = <<" ">> -> <<"b8", "58", "cb282617fb0956d960215c8e84d1ccf909c6">>
      [] value = <<"a", "@", "b">> -> <<"d0", "33", "8b23241f124f2c83fa6f5821920039bf85db">>
      [] value = <<"A", "@", "b">> -> <<"5b", "63", "59041ceb409d645b962545466b7c6d9c0abc">>

\* a bucket file, or {} when it is missing (_load_trie_index, _load_hash_index,
\* _read_index_file)
LoadIndex(ix, file_path) == IF file_path \in DOMAIN ix THEN ix[file_path] ELSE EmptyDict

\* _atomic_write_json when no step of it fails
WriteIndex(ix, file_path, data) == (file_path :> data) @@ ix

\* index_root / index_type / dir / f"{stem}.json" as pathlib joins the three: a
\* segment that starts with "/" is absolute and drops what precedes it ("/.json" when
\* the stem is "/", the directory "/" when dir is "/"), and a segment "." is dropped.
\* A path whose first component is "/" is a file outside index_root.
JoinPath(index_type, dir, stem) ==
    IF stem = "/" THEN <<"/", "">>
    ELSE IF dir = "/" THEN <<"/", stem>>
    ELSE IF dir = "." THEN <<index_type, stem>>
    ELSE <<index_type, dir, stem>>

\* index_root / index_type / dir
JoinDir(index_type, dir) ==
    IF dir = "/" THEN <<"/">>
    ELSE IF dir = "." THEN <<index_type>>
    ELSE <<index_type, dir>>

\* GetTriePath changed: the bucket is chosen by the characters of the value as given
GetTriePathRaw(index_type, value) ==
    IF Len(value) < 2
    THEN <<index_type, "_short", IF value # <<>> THEN value[1] ELSE "_">>
    ELSE <<index_type, value[1], value[2]>>

\* _get_trie_path: <<index_type, directory, stem of the .json file>>
GetTriePath(index_type, value) ==
    LET normalized == Normalize(value)
    IN  IF Len(normalized) < 2
        THEN JoinPath(index_type, "_short", IF normalized # <<>> THEN normalized[1] ELSE "_")
        ELSE JoinPath(index_type, normalized[1], normalized[2])

\* DictAddId changed: the uuid is appended without the test `uuid not in list`
DictAddIdAgain(index_data, key, uuid) ==
    LET d == IF key \notin DOMAIN index_data THEN DictSet(index_data, key, <<>>) ELSE index_data
    IN  DictSet(d, key, Append(d[key], uuid))

\* the load-mutate part of add_to_trie_index / add_to_hash_index (lines 175-179, 348-352)
DictAddId(index_data, key, uuid) ==
    LET d == IF key \notin DOMAIN index_data THEN DictSet(index_data, key, <<>>) ELSE index_data
    IN  IF ~InList(uuid, d[key]) THEN DictSet(d, key, Append(d[key], uuid)) ELSE d

\* DictRemoveId changed: a key whose list became empty is kept
DictRemoveIdKeepsKey(index_data, key, uuid) ==
    IF key \in DOMAIN index_data
    THEN DictSet(index_data, key,
                 IF InList(uuid, index_data[key]) THEN ListRemove(index_data[key], uuid)
                 ELSE index_data[key])
    ELSE index_data

\* the load-mutate part of remove_from_trie_index / remove_from_hash_index
\* (lines 205-210, 378-383)
DictRemoveId(index_data, key, uuid) ==
    IF key \in DOMAIN index_data
    THEN LET list == IF InList(uuid, index_data[key])
                     THEN ListRemove(index_data[key], uuid)
                     ELSE index_data[key]
         IN  IF list = <<>> THEN DictDel(index_data, key) ELSE DictSet(index_data, key, list)
    ELSE index_data

\* add_to_trie_index(index_type, value, uuid)
AddToTrieIndex(ix, index_type, value, uuid) ==
    IF IsBlank(value) THEN ix
    ELSE LET file_path == GetTriePath(index_type, value)
         IN  WriteIndex(ix, file_path, DictAddId(LoadIndex(ix, file_path), Normalize(value), uuid))

\* RemoveFromTrieIndex changed: the entry is left in the bucket file
RemoveFromTrieIndexKeeps(ix, index_type, value, uuid) == ix

\* remove_from_trie_index(index_type, value, uuid)
RemoveFromTrieIndex(ix, index_type, value, uuid) ==
    IF IsBlank(value) THEN ix
    ELSE LET file_path == GetTriePath(index_type, value)
         IN  IF file_path \notin DOMAIN ix THEN ix
             ELSE WriteIndex(ix, file_path,
                             DictRemoveId(LoadIndex(ix, file_path), Normalize(value), uuid))

\* SearchByPrefix changed: every key of the scanned bucket files is returned, without
\* the startswith test
SearchByPrefixWholeBucket(ix, index_type, prefix) ==
    LET normalized_prefix == Normalize(prefix)
        short_path == <<index_type, "_short", normalized_prefix[1]>>
        first_dir == {p \in DOMAIN ix :
                        Len(p) = 3 /\ p[1] = index_type /\ p[2] = normalized_prefix[1]}
        one_path == <<index_type, normalized_prefix[1], normalized_prefix[2]>>
        scanned == IF Len(normalized_prefix) < 2
                   THEN ({short_path} \cap DOMAIN ix) \cup first_dir
                   ELSE {one_path} \cap DOMAIN ix
        keys == UNION {DOMAIN ix[p] : p \in scanned}
    IN  IF normalized_prefix = <<>> THEN EmptyDict
        ELSE [k \in keys |-> ix[CHOOSE p \in scanned : k \in DOMAIN ix[p]][k]]

\* search_by_prefix(index_type, prefix): the dict {key: uuids} of the scanned bucket files
SearchByPrefix(ix, index_type, prefix) ==
    LET normalized_prefix == Normalize(prefix)
        short_path == JoinPath(index_type, "_short", normalized_prefix[1])
        first_dir == {p \in DOMAIN ix :
                        /\ Len(p) > 1
                        /\ SubSeq(p, 1, Len(p) - 1) = JoinDir(index_type, normalized_prefix[1])}
        one_path == JoinPath(index_type, normalized_prefix[1], normalized_prefix[2])
        scanned == IF Len(normalized_prefix) < 2
                   THEN ({short_path} \cap DOMAIN ix) \cup first_dir
                   ELSE {one_path} \cap DOMAIN ix
        keys == UNION {{k \in DOMAIN ix[p] : StartsWith(k, normalized_prefix)} : p \in scanned}
    IN  IF normalized_prefix = <<>> THEN EmptyDict
        ELSE [k \in keys |-> ix[CHOOSE p \in scanned : k \in DOMAIN ix[p]][k]]

\* GetHashPath changed: the key is the four hex characters that name the bucket file
GetHashPathBucketKey(index_type, value) ==
    LET full_hash == Sha1Hex(value)
    IN  [file_path |-> <<index_type, full_hash[1], full_hash[2]>>,
         full_hash |-> <<full_hash[1], full_hash[2]>>]

\* _get_hash_path: the bucket file and the full digest
GetHashPath(index_type, value) ==
    LET full_hash == Sha1Hex(value)
    IN  [file_path |-> <<index_type, full_hash[1], full_hash[2]>>, full_hash |-> full_hash]

\* add_to_hash_index(index_type, value, uuid)
AddToHashIndex(ix, index_type, value, uuid) ==
    IF IsBlank(value) THEN ix
    ELSE LET hp == GetHashPath(index_type, value)
         IN  WriteIndex(ix, hp.file_path,
                        DictAddId(LoadIndex(ix, hp.file_path), hp.full_hash, uuid))

\* remove_from_hash_index(index_type, value, uuid)
RemoveFromHashIndex(ix, index_type, value, uuid) ==
    IF IsBlank(value) THEN ix
    ELSE LET hp == GetHashPath(index_type, value)
         IN  IF hp.file_path \notin DOMAIN ix THEN ix
             ELSE WriteIndex(ix, hp.file_path,
                             DictRemoveId(LoadIndex(ix, hp.file_path), hp.full_hash, uuid))

\* SearchByExactMatch changed: the uuids of every key of the bucket file are returned
SearchByExactMatchWholeBucket(ix, index_name, value) ==
    IF IsBlank(value) THEN <<>>
    ELSE LET hp == GetHashPath(index_name, value)
             data == LoadIndex(ix, hp.file_path)
             RECURSIVE All(_)
             All(keys) == IF keys = {} THEN <<>>
                          ELSE LET k == CHOOSE x \in keys : TRUE
                               IN  data[k] \o All(keys \ {k})
         IN  All(DOMAIN data)

\* search_by_exact_match(index_name, value): the list of uuids
SearchByExactMatch(ix, index_name, value) ==
    IF IsBlank(value) THEN <<>>
    ELSE LET hp == GetHashPath(index_name, value)
         IN  IF hp.file_path \notin DOMAIN ix THEN <<>>
             ELSE DictGet(LoadIndex(ix, hp.file_path), hp.full_hash, <<>>)

\* f"{n:02d}"
Pad2(n) == IF n < 10 THEN "0" \o ToString(n) ELSE ToString(n)

\* A datetime is <<year, month, day, time of day>>; isoformat() gives
\* "YYYY-MM-DDT...", of which these are the slices [:4], [5:7] and [8:10]
IsoYear(date_iso) == ToString(date_iso[1])
IsoMonth(date_iso) == Pad2(date_iso[2])
IsoDay(date_iso) == Pad2(date_iso[3])

\* _get_date_path: index_name / year / month / day.json
GetDatePath(index_name, date_iso) ==
    <<index_name, IsoYear(date_iso), IsoMonth(date_iso), IsoDay(date_iso)>>

\* add_to_date_index(index_name, date_iso, uuid)
AddToDateIndex(ix, index_name, date_iso, uuid) ==
    LET file_path == GetDatePath(index_name, date_iso)
        data == LoadIndex(ix, file_path)
        d == IF "uuids" \notin DOMAIN data THEN DictSet(data, "uuids", <<>>) ELSE data
    IN  IF ~InList(uuid, d["uuids"])
        THEN WriteIndex(ix, file_path, DictSet(d, "uuids", Append(d["uuids"], uuid)))
        ELSE ix

\* RemoveFromDateIndex changed: the uuid is left in the day file
RemoveFromDateIndexKeeps(ix, index_name, date_iso, uuid) == ix

\* remove_from_date_index(index_name, date_iso, uuid)
RemoveFromDateIndex(ix, index_name, date_iso, uuid) ==
    LET file_path == GetDatePath(index_name, date_iso)
        data == LoadIndex(ix, file_path)
    IN  IF file_path \notin DOMAIN ix THEN ix
        ELSE IF "uuids" \in DOMAIN data /\ InList(uuid, data["uuids"])
        THEN LET list == ListRemove(data["uuids"], uuid)
             IN  WriteIndex(ix, file_path,
                            IF list = <<>> THEN DictDel(data, "uuids")
                            ELSE DictSet(data, "uuids", list))
        ELSE ix

\* the set of the elements of a list
ListElems(list) == {list[i] : i \in 1..Len(list)}

\* SearchByDate changed: a search for a day returns the uuids of its whole month
SearchByDateWholeMonth(ix, index_name, year, month, day) ==
    LET base1 == <<index_name, ToString(year)>>
        base_path == IF month # 0 THEN Append(base1, Pad2(month)) ELSE base1
        under == {p \in DOMAIN ix :
                    Len(p) > Len(base_path) /\ SubSeq(p, 1, Len(base_path)) = base_path}
    IN  UNION {ListElems(DictGet(ix[p], "uuids", <<>>)) : p \in under}

\* search_by_date(index_name, year, month, day): month and day are 0 when omitted
\* (`if month:` and `if day:` treat 0 as None)
SearchByDate(ix, index_name, year, month, day) ==
    LET base1 == <<index_name, ToString(year)>>
        base2 == IF month # 0 THEN Append(base1, Pad2(month)) ELSE base1
        base_path == IF day # 0 THEN Append(base2, Pad2(day)) ELSE base2
        under == {p \in DOMAIN ix :
                    Len(p) > Len(base_path) /\ SubSeq(p, 1, Len(base_path)) = base_path}
    IN  IF day # 0
        THEN (IF base_path \in DOMAIN ix
              THEN ListElems(DictGet(ix[base_path], "uuids", <<>>))
              ELSE {})
        ELSE UNION {ListElems(DictGet(ix[p], "uuids", <<>>)) : p \in under}

\* RebuildIndexSet changed: the directories of the indexes are left as they are
RebuildIndexSetKeeps(ix, index_names) == ix

\* RebuildIndexSet changed: the whole index root is removed, not only the named indexes
RebuildIndexSetWholeRoot(ix, index_names) == EmptyDict

\* rebuild_index_set(index_names): every named index directory is removed and recreated
RebuildIndexSet(ix, index_names) ==
    [p \in {q \in DOMAIN ix : q[1] \notin index_names} |-> ix[p]]

\* ---------------------------------------------------------------- AddressBookStorage
\* truth value of data.get(key) for a string field: missing, None and "" are falsy
Truthy(data, key) == key \in DOMAIN data /\ data[key] # <<>>

\* `for value in values: add_to_hash_index(index_type, value, uuid)`
RECURSIVE AddAllToHashIndex(_, _, _, _)
AddAllToHashIndex(ix, index_type, values, uuid) ==
    IF values = <<>> THEN ix
    ELSE Then(AddToHashIndex(ix, index_type, Head(values), uuid),
              LAMBDA ix1 : AddAllToHashIndex(ix1, index_type, Tail(values), uuid))

\* `for value in values: remove_from_hash_index(index_type, value, uuid)`
RECURSIVE RemoveAllFromHashIndex(_, _, _, _)
RemoveAllFromHashIndex(ix, index_type, values, uuid) ==
    IF values = <<>> THEN ix
    ELSE Then(RemoveFromHashIndex(ix, index_type, Head(values), uuid),
              LAMBDA ix1 : RemoveAllFromHashIndex(ix1, index_type, Tail(values), uuid))

\* AddressBookStorage._add_to_indexes(contact_uuid, contact_data)
ContactAddToIndexes(ix, contact_uuid, contact_data) ==
    Then(IF Truthy(contact_data, "first_name")
         THEN AddToTrieIndex(ix, INDEX_CONTACT_FIRST_NAME, contact_data["first_name"],
                             contact_uuid)
         ELSE ix, LAMBDA ix1 :
    Then(IF Truthy(contact_data, "last_name")
         THEN AddToTrieIndex(ix1, INDEX_CONTACT_LAST_NAME, contact_data["last_name"],
                             contact_uuid)
         ELSE ix1, LAMBDA ix2 :
    Then(AddAllToHashIndex(ix2, INDEX_CONTACT_PHONE,
                           DictGet(contact_data, "phones", <<>>), contact_uuid), LAMBDA ix3 :
    AddAllToHashIndex(ix3, INDEX_CONTACT_EMAIL,
                      DictGet(contact_data, "emails", <<>>), contact_uuid))))

\* ContactRemoveFromIndexes changed: the phones and the emails are left in their indexes
ContactRemoveNamesOnly(ix, contact_uuid, contact_data) ==
    Then(IF Truthy(contact_data, "first_name")
         THEN RemoveFromTrieIndex(ix, INDEX_CONTACT_FIRST_NAME,
                                  contact_data["first_name"], contact_uuid)
         ELSE ix, LAMBDA ix1 :
    IF Truthy(contact_data, "last_name")
    THEN RemoveFromTrieIndex(ix1, INDEX_CONTACT_LAST_NAME,
                             contact_data["last_name"], contact_uuid)
    ELSE ix1)

\* AddressBookStorage._remove_from_indexes(contact_uuid, contact_data)
ContactRemoveFromIndexes(ix, contact_uuid, contact_data) ==
    Then(IF Truthy(contact_data, "first_name")
         THEN RemoveFromTrieIndex(ix, INDEX_CONTACT_FIRST_NAME,
                                  contact_data["first_name"], contact_uuid)
         ELSE ix, LAMBDA ix1 :
    Then(IF Truthy(contact_data, "last_name")
         THEN RemoveFromTrieIndex(ix1, INDEX_CONTACT_LAST_NAME,
                                  contact_data["last_name"], contact_uuid)
         ELSE ix1, LAMBDA ix2 :
    Then(RemoveAllFromHashIndex(ix2, INDEX_CONTACT_PHONE,
                                DictGet(contact_data, "phones", <<>>), contact_uuid),
         LAMBDA ix3 :
    RemoveAllFromHashIndex(ix3, INDEX_CONTACT_EMAIL,
                           DictGet(contact_data, "emails", <<>>), contact_uuid))))

\* `if not record`: None and {} are falsy
Falsy(record) == record = None \/ DOMAIN record = {}

\* add_contact(first_name, last_name, phones, emails, note_ids, **extra_fields);
\* fields holds the five named arguments (defaults filled in), extra the extra_fields
AddContactOp(hf, ix, fields, extra, uuid, t1, t2) ==
    LET created == HeapCreateContact(hf, extra @@ fields, uuid, t1, t2)
    IN  [heap  |-> created.files,
         index |-> ContactAddToIndexes(ix, created.ret["uuid"], created.ret),
         ret   |-> created.ret["uuid"]]

\* update_contact(contact_uuid, first_name, ..., **extra_fields); fields holds the named
\* arguments that are not None
UpdateContactOp(hf, ix, contact_uuid, fields, extra, t1, t2) ==
    LET old_contact == HeapRead(hf, "contacts", contact_uuid)
        ix1 == ContactRemoveFromIndexes(ix, contact_uuid, old_contact)
        new_contact == extra @@ fields @@ old_contact
        updated == HeapUpdateContact(hf, contact_uuid, new_contact, t1, t2)
    IN  IF Falsy(old_contact) THEN [heap |-> hf, index |-> ix, ret |-> "False"]
        ELSE [heap  |-> updated.files,
              index |-> Then(ix1, LAMBDA ix2 :
                            IF updated.ret = "True"
                            THEN ContactAddToIndexes(ix2, contact_uuid, updated.data)
                            ELSE ix2),
              ret   |-> updated.ret]

\* remove_contact(contact_uuid)
RemoveContactOp(hf, ix, contact_uuid, unlink_fails) ==
    LET contact == HeapRead(hf, "contacts", contact_uuid)
        deleted == HeapDelete(hf, "contacts", contact_uuid, unlink_fails)
    IN  IF Falsy(contact) THEN [heap |-> hf, index |-> ix, ret |-> "False"]
        ELSE [heap  |-> deleted.files,
              index |-> ContactRemoveFromIndexes(ix, contact_uuid, contact),
              ret   |-> deleted.ret]

\* the uuids listed by a search_by_prefix result
PrefixHits(results) == UNION {ListElems(results[k]) : k \in DOMAIN results}

\* Resolve changed: what the heap returns for a listed uuid is kept, None included
ResolveKeepsMissing(hf, entity_type, uuids) ==
    {HeapRead(hf, entity_type, u) : u \in uuids}

\* the records read for a set of uuids, those that are missing dropped
Resolve(hf, entity_type, uuids) ==
    {r \in {HeapRead(hf, entity_type, u) : u \in uuids} : ~Falsy(r)}

\* search_by_first_name(prefix), as the set of the contacts returned
SearchByFirstName(hf, ix, prefix) ==
    Resolve(hf, "contacts", PrefixHits(SearchByPrefix(ix, INDEX_CONTACT_FIRST_NAME, prefix)))

\* search_by_last_name(prefix)
SearchByLastName(hf, ix, prefix) ==
    Resolve(hf, "contacts", PrefixHits(SearchByPrefix(ix, INDEX_CONTACT_LAST_NAME, prefix)))

\* search_by_phone(phone)
SearchByPhone(hf, ix, phone) ==
    Resolve(hf, "contacts", ListElems(SearchByExactMatch(ix, INDEX_CONTACT_PHONE, phone)))

\* search_by_email(email)
SearchByEmail(hf, ix, email) ==
    Resolve(hf, "contacts", ListElems(SearchByExactMatch(ix, INDEX_CONTACT_EMAIL, email)))

\* ---------------------------------------------------------------- NotesStorage
\* NotesStorage._add_to_indexes(note_uuid, note_data)
NoteAddToIndexes(ix, note_uuid, note_data) ==
    Then(IF "title" \in DOMAIN note_data
         THEN AddToTrieIndex(ix, INDEX_NOTE_TITLE, note_data["title"], note_uuid)
         ELSE ix, LAMBDA ix1 :
    IF "created_at" \in DOMAIN note_data
    THEN AddToDateIndex(ix1, INDEX_NOTE_CREATION_DATE, note_data["created_at"], note_uuid)
    ELSE ix1)

\* NotesStorage._remove_from_indexes(note_uuid, note_data)
NoteRemoveFromIndexes(ix, note_uuid, note_data) ==
    Then(IF "title" \in DOMAIN note_data
         THEN RemoveFromTrieIndex(ix, INDEX_NOTE_TITLE, note_data["title"], note_uuid)
         ELSE ix, LAMBDA ix1 :
    IF "created_at" \in DOMAIN note_data
    THEN RemoveFromDateIndex(ix1, INDEX_NOTE_CREATION_DATE, note_data["created_at"],
                             note_uuid)
    ELSE ix1)

\* add_note(title, content, tags, contact_ids, **extra_fields)
AddNoteOp(hf, ix, fields, extra, uuid, t1, t2) ==
    LET created == HeapCreateNote(hf, extra @@ fields, uuid, t1, t2)
    IN  [heap  |-> created.files,
         index |-> NoteAddToIndexes(ix, created.ret["uuid"], created.ret),
         ret   |-> created.ret["uuid"]]

\* UpdateNoteOp changed: the title index is changed before the note is looked up
UpdateNoteOpIndexesFirst(hf, ix, note_uuid, fields, extra, t1, t2) ==
    LET old_note == HeapRead(hf, "notes", note_uuid)
        new_note == extra @@ fields @@ old_note
        old_title == DictGet(old_note, "title", <<>>)
        new_title == DictGet(new_note, "title", <<>>)
        ix1 == IF old_title # new_title /\ old_title # <<>>
               THEN RemoveFromTrieIndex(ix, INDEX_NOTE_TITLE, old_title, note_uuid)
               ELSE ix
        ix2 == Then(ix1, LAMBDA jx :
                    IF old_title # new_title /\ new_title # <<>>
                    THEN AddToTrieIndex(jx, INDEX_NOTE_TITLE, new_title, note_uuid)
                    ELSE jx)
        updated == HeapUpdateNote(hf, note_uuid, new_note, t1, t2)
    IN  IF Falsy(old_note) THEN [heap |-> hf, index |-> ix2, ret |-> "False"]
        ELSE [heap |-> updated.files, index |-> ix2, ret |-> updated.ret]

\* update_note(note_uuid, title, content, tags, contact_ids, **extra_fields): the title
\* index is changed before the heap is written
UpdateNoteOp(hf, ix, note_uuid, fields, extra, t1, t2) ==
    LET old_note == HeapRead(hf, "notes", note_uuid)
        new_note == extra @@ fields @@ old_note
        old_title == DictGet(old_note, "title", <<>>)
        new_title == DictGet(new_note, "title", <<>>)
        ix1 == IF old_title # new_title /\ old_title # <<>>
               THEN RemoveFromTrieIndex(ix, INDEX_NOTE_TITLE, old_title, note_uuid)
               ELSE ix
        ix2 == Then(ix1, LAMBDA jx :
                    IF old_title # new_title /\ new_title # <<>>
                    THEN AddToTrieIndex(jx, INDEX_NOTE_TITLE, new_title, note_uuid)
                    ELSE jx)
        updated == HeapUpdateNote(hf, note_uuid, new_note, t1, t2)
    IN  IF Falsy(old_note) THEN [heap |-> hf, index |-> ix, ret |-> "False"]
        ELSE [heap |-> updated.files, index |-> ix2, ret |-> updated.ret]

\* delete_note(note_uuid)
DeleteNoteOp(hf, ix, note_uuid, unlink_fails) ==
    LET note == HeapRead(hf, "notes", note_uuid)
        deleted == HeapDelete(hf, "notes", note_uuid, unlink_fails)
    IN  IF Falsy(note) THEN [heap |-> hf, index |-> ix, ret |-> "False"]
        ELSE [heap  |-> deleted.files,
              index |-> NoteRemoveFromIndexes(ix, note_uuid, note),
              ret   |-> deleted.ret]

\* search_by_title(prefix), as the set of the notes returned
SearchByTitle(hf, ix, prefix) ==
    Resolve(hf, "notes", PrefixHits(SearchByPrefix(ix, INDEX_NOTE_TITLE, prefix)))

\* NotesStorage.search_by_date(year, month, day)
SearchNotesByDate(hf, ix, year, month, day) ==
    Resolve(hf, "notes", SearchByDate(ix, INDEX_NOTE_CREATION_DATE, year, month, day))

\* ---------------------------------------------------------------- BaseStorage
\* the orders in which a directory scan can yield the records of list_all
ScanOrders(entities) ==
    {order \in [1..Cardinality(entities) -> entities] :
        \A i, j \in 1..Cardinality(entities) : i # j => order[i] # order[j]}

\* ReindexContacts changed: only the first record of the scan is indexed
ReindexContactsFirstOnly(ix, all_entities) ==
    IF all_entities = <<>> THEN ix
    ELSE ContactAddToIndexes(ix, Head(all_entities)["uuid"], Head(all_entities))

\* the loop of rebuild_indexes over contacts: `if entity_uuid: _add_to_indexes(...)`
RECURSIVE ReindexContacts(_, _)
ReindexContacts(ix, all_entities) ==
    IF all_entities = <<>> THEN ix
    ELSE LET entity == Head(all_entities)
         IN  Then(IF "uuid" \in DOMAIN entity
                  THEN ContactAddToIndexes(ix, entity["uuid"], entity)
                  ELSE ix,
                  LAMBDA ix1 : ReindexContacts(ix1, Tail(all_entities)))

\* the loop of rebuild_indexes over notes
RECURSIVE ReindexNotes(_, _)
ReindexNotes(ix, all_entities) ==
    IF all_entities = <<>> THEN ix
    ELSE LET entity == Head(all_entities)
         IN  Then(IF "uuid" \in DOMAIN entity
                  THEN NoteAddToIndexes(ix, entity["uuid"], entity)
                  ELSE ix,
                  LAMBDA ix1 : ReindexNotes(ix1, Tail(all_entities)))

\* AddressBookStorage.rebuild_indexes(), the directory scan yielding all_entities
RebuildContactsOp(ix, all_entities) ==
    [index |-> ReindexContacts(RebuildIndexSet(ix, CONTACT_INDEXES), all_entities),
     ret   |-> Len(all_entities)]

\* NotesStorage.rebuild_indexes()
RebuildNotesOp(ix, all_entities) ==
    [index |-> ReindexNotes(RebuildIndexSet(ix, NOTE_INDEXES), all_entities),
     ret   |-> Len(all_entities)]

\* ---------------------------------------------------------------- inputs
\* datetime.now() values; T1 and T2 fall on the same day.  T0 is a time only callers name.
T0 == <<2023, 12, 31, 2359>>
T1 == <<2024, 1, 5, 900>>
T2 == <<2024, 1, 5, 1730>>
T3 == <<2024, 2, 1, 900>>
T4 == <<2025, 1, 5, 900>>
Times == {T1, T2, T3, T4}

\* t is later than s (the order of the ISO strings)
Later(t, s) ==
    \E i \in 1..4 : t[i] > s[i] /\ \A j \in 1..(i - 1) : t[j] = s[j]

\* The named arguments of add_contact: first_name "Jo", "jon ", "Ja" and " " (blank);
\* last_name "" (the default), "Jo" and "j"; the phones "161" and "244" fall in the same
\* bucket file, and a list can name a value twice.
ContactInputs ==
    {[first_name |-> <<"J", "o">>, last_name |-> <<>>, phones |-> <<>>, emails |-> <<>>],
     [first_name |-> <<"j", "o", "n", " ">>, last_name |-> <<"J", "o">>,
      phones |-> <<<<"1", "6", "1">>>>, emails |-> <<<<"a", "@", "b">>>>],
     [first_name |-> <<"J", "a">>, last_name |-> <<"J", "o">>,
      phones |-> <<<<"2", "4", "4">>, <<"1", "6", "1">>, <<"2", "4", "4">>>>,
      emails |-> <<<<" ">>>>],
     [first_name |-> <<" ">>, last_name |-> <<"j">>,
      phones |-> <<<<" ">>>>, emails |-> <<<<"a", "@", "b">>>>]}

\* the named arguments of update_contact that are not None: all four, first_name
\* alone ("jO"), or none
ContactUpdates == ContactInputs \cup {[first_name |-> <<"j", "O">>], <<>>}

\* **extra_fields of the repository calls: none, or system fields set by the caller
ContactExtras == {[uuid |-> "u9", created_at |-> T3]}
NoteExtras == {<<>>, [created_at |-> T3]}

\* the title of add_note: "Jo", "jon "
Titles == {<<"J", "o">>, <<"j", "o", "n", " ">>}

\* the named arguments of update_note that are not None
NoteUpdates == {<<>>} \cup {[title |-> n] : n \in Titles}

\* the uuids a caller can name: every value uuid4() can have drawn
Uuids == {Uuid4(n) : n \in 1..MaxIds}

\* the threads of an embedding application
Threads == {"a", "b"}

\* ---------------------------------------------------------------- repository actions
Init ==
    /\ heap_files = <<>>
    /\ index_files = <<>>
    /\ uuid_count = 0
    /\ removed = {}
    /\ last = [op |-> "none"]
    /\ wr = [pc |-> "idle", calls |-> 0]
    /\ rd = [pc |-> "idle"]
    /\ locks = <<>>
    /\ lock_objs = <<>>
    /\ threads = [t \in Threads |-> [pc |-> "idle", calls |-> 0]]
    /\ hist = [granted |-> {}, serial |-> <<>>]
    /\ book = <<>>
    /\ args = <<>>

AddContact(fields, extra, t1, t2) ==
    /\ uuid_count < MaxIds
    /\ LET r == AddContactOp(heap_files, index_files, fields @@ [note_ids |-> <<>>],
                             extra, Uuid4(uuid_count + 1), t1, t2)
       IN  /\ heap_files' = r.heap
           /\ index_files' = r.index
    /\ uuid_count' = uuid_count + 1
    /\ UNCHANGED <<mdvars, removed, last, wr, rd, thvars>>

UpdateContact(contact_uuid, fields, extra, t1, t2) ==
    /\ LET r == UpdateContactOp(heap_files, index_files, contact_uuid, fields, extra, t1, t2)
       IN  /\ heap_files' = r.heap
           /\ index_files' = r.index
    /\ UNCHANGED <<mdvars, uuid_count, removed, last, wr, rd, thvars>>

RemoveContact(contact_uuid) ==
    /\ LET r == RemoveContactOp(heap_files, index_files, contact_uuid, FALSE)
       IN  /\ heap_files' = r.heap
           /\ index_files' = r.index
           /\ removed' = IF r.ret = "True" THEN removed \cup {contact_uuid} ELSE removed
    /\ UNCHANGED <<mdvars, uuid_count, last, wr, rd, thvars>>

RebuildContacts ==
    /\ \E all_entities \in ScanOrders(ListAll(heap_files, "contacts")) :
           index_files' = RebuildContactsOp(index_files, all_entities).index
    /\ UNCHANGED <<mdvars, heap_files, uuid_count, removed, last, wr, rd, thvars>>

AddNote(title, extra, t1, t2) ==
    /\ uuid_count < MaxIds
    /\ LET r == AddNoteOp(heap_files, index_files,
                          [title |-> title, content |-> <<"x">>, tags |-> <<>>,
                           contact_ids |-> <<>>],
                          extra, Uuid4(uuid_count + 1), t1, t2)
       IN  /\ heap_files' = r.heap
           /\ index_files' = r.index
    /\ uuid_count' = uuid_count + 1
    /\ UNCHANGED <<mdvars, removed, last, wr, rd, thvars>>

UpdateNote(note_uuid, fields, extra, t1, t2) ==
    /\ LET r == UpdateNoteOp(heap_files, index_files, note_uuid, fields, extra, t1, t2)
       IN  /\ heap_files' = r.heap
           /\ index_files' = r.index
    /\ UNCHANGED <<mdvars, uuid_count, removed, last, wr, rd, thvars>>

DeleteNote(note_uuid) ==
    /\ LET r == DeleteNoteOp(heap_files, index_files, note_uuid, FALSE)
       IN  /\ heap_files' = r.heap
           /\ index_files' = r.index
           /\ removed' = IF r.ret = "True" THEN removed \cup {note_uuid} ELSE removed
    /\ UNCHANGED <<mdvars, uuid_count, last, wr, rd, thvars>>

RebuildNotes ==
    /\ \E all_entities \in ScanOrders(ListAll(heap_files, "notes")) :
           index_files' = RebuildNotesOp(index_files, all_entities).index
    /\ UNCHANGED <<mdvars, heap_files, uuid_count, removed, last, wr, rd, thvars>>

\* The repositories under single-threaded use with no I/O failure.  Every
\* datetime.now() of this specification reads T1; a note's created_at can also come
\* from the caller.
Next ==
    \/ \E fields \in ContactInputs : AddContact(fields, <<>>, T1, T1)
    \/ \E extra \in ContactExtras :
           AddContact([first_name |-> <<"J", "o">>, last_name |-> <<>>,
                       phones |-> <<>>, emails |-> <<>>], extra, T1, T1)
    \/ \E u \in Uuids, fields \in ContactUpdates : UpdateContact(u, fields, <<>>, T1, T1)
    \/ \E u \in Uuids : RemoveContact(u)
    \/ RebuildContacts
    \/ \E title \in Titles, extra \in NoteExtras : AddNote(title, extra, T1, T1)
    \/ \E u \in Uuids, fields \in NoteUpdates : UpdateNote(u, fields, <<>>, T1, T1)
    \/ \E u \in Uuids : DeleteNote(u)
    \/ RebuildNotes

Spec == Init /\ [][Next]_vars

\* ---------------------------------------------------------------- HeapStorage called directly
\* Documents handed to create_contact: plain fields, or fields together
\* with system keys (the uuid of the first record, timestamps of 2023)
HeapContactInputs ==
    {[first_name |-> <<"J", "o">>, phones |-> <<<<"1", "6", "1">>>>],
     [first_name |-> <<"J", "a">>, uuid |-> "u1", created_at |-> T0, updated_at |-> T0]}

\* documents handed to create_note
HeapNoteInputs ==
    {[title |-> <<"J", "o">>, tags |-> <<>>],
     [title |-> <<"J", "a">>, uuid |-> "u1", created_at |-> T0]}

\* documents handed to update_contact / update_note: new fields and system keys
HeapContactUpdates ==
    {[first_name |-> <<"j", "O">>, uuid |-> "u9", created_at |-> T0, updated_at |-> T0]}

HeapNoteUpdates == {[title |-> <<"j", "O">>, uuid |-> "u9", created_at |-> T0]}

\* the two datetime.now() read by one create call
CreateClock == {<<T2, T3>>}

\* The two datetime.now() read by one update call.  The clock is the local wall clock:
\* it can read the same value twice and can be set back between two calls.
UpdateClock == {<<T1, T1>>, <<T4, T4>>}

\* the uuids of the documents stored under entity_type
StoredIds(hf, entity_type) ==
    {Load(hf, p)["uuid"] : p \in {q \in DOMAIN hf : q[1] = entity_type}}

\* what a direct client remembers of its last call
Called(op, entity_type, uuid, input, before, ids, ret, t1, t2) ==
    [op |-> op, entity_type |-> entity_type, uuid |-> uuid, input |-> input,
     before |-> before, ids |-> ids, ret |-> ret, t1 |-> t1, t2 |-> t2]

CallCreateContact(contact_data, t1, t2) ==
    /\ uuid_count < MaxIds
    /\ LET uuid == Uuid4(uuid_count + 1)
           r == HeapCreateContact(heap_files, contact_data, uuid, t1, t2)
       IN  /\ heap_files' = r.files
           /\ last' = Called("create", "contacts", uuid, contact_data, None,
                             StoredIds(heap_files, "contacts"), r.ret, t1, t2)
    /\ uuid_count' = uuid_count + 1
    /\ UNCHANGED <<mdvars, index_files, removed, wr, rd, thvars>>

CallCreateNote(note_data, t1, t2) ==
    /\ uuid_count < MaxIds
    /\ LET uuid == Uuid4(uuid_count + 1)
           r == HeapCreateNote(heap_files, note_data, uuid, t1, t2)
       IN  /\ heap_files' = r.files
           /\ last' = Called("create", "notes", uuid, note_data, None,
                             StoredIds(heap_files, "notes"), r.ret, t1, t2)
    /\ uuid_count' = uuid_count + 1
    /\ UNCHANGED <<mdvars, index_files, removed, wr, rd, thvars>>

CallUpdate(entity_type, uuid, new_data, t1, t2) ==
    /\ LET r == HeapUpdate(heap_files, entity_type, uuid, new_data, t1, t2)
       IN  /\ heap_files' = r.files
           /\ last' = Called("update", entity_type, uuid, new_data,
                             HeapRead(heap_files, entity_type, uuid),
                             StoredIds(heap_files, entity_type), r.ret, t1, t2)
    /\ UNCHANGED <<mdvars, index_files, uuid_count, removed, wr, rd, thvars>>

CallUpdateContact(contact_uuid, contact_data, t1, t2) ==
    CallUpdate("contacts", contact_uuid, contact_data, t1, t2)

CallUpdateNote(note_uuid, note_data, t1, t2) ==
    CallUpdate("notes", note_uuid, note_data, t1, t2)

CallDelete(entity_type, uuid) ==
    /\ LET r == HeapDelete(heap_files, entity_type, uuid, FALSE)
       IN  /\ heap_files' = r.files
           /\ last' = Called("delete", entity_type, uuid, None,
                             HeapRead(heap_files, entity_type, uuid),
                             StoredIds(heap_files, entity_type), r.ret, None, None)
    /\ UNCHANGED <<mdvars, index_files, uuid_count, removed, wr, rd, thvars>>

NextHeap ==
    \/ \E d \in HeapContactInputs, c \in CreateClock : CallCreateContact(d, c[1], c[2])
    \/ \E d \in HeapNoteInputs, c \in CreateClock : CallCreateNote(d, c[1], c[2])
    \/ \E u \in Uuids, d \in HeapContactUpdates, c \in UpdateClock :
           CallUpdateContact(u, d, c[1], c[2])
    \/ \E u \in Uuids, d \in HeapNoteUpdates, c \in UpdateClock :
           CallUpdateNote(u, d, c[1], c[2])
    \/ \E u \in Uuids : CallDelete("contacts", u)
    \/ \E u \in Uuids : CallDelete("notes", u)

\* HeapStorage used directly by one client, no I/O failure
SpecHeap == Init /\ [][NextHeap]_vars

\* ---------------------------------------------------------------- _save_atomic and _load, step by step
\* TempPath changed: the text is written to the record file itself
TempPathInPlace(file_path, n) == file_path

\* tempfile.mkstemp(dir=file_path.parent, prefix='.tmp_', suffix='.json'): the n-th name
\* drawn; the names never repeat
TempPath(file_path, n) == <<file_path[1], <<".", "tmp_" \o ToString(n), ".json">>>>

\* os.unlink(path)
Unlink(hf, path) == [p \in DOMAIN hf \ {path} |-> hf[p]]

\* os.replace(src, dst)
Replace(hf, src, dst) == (dst :> hf[src]) @@ Unlink(hf, src)

\* the documents written to the record of a uuid
SaveDocs(uuid) ==
    {[uuid |-> uuid, first_name |-> <<"J", "o">>], [uuid |-> uuid, first_name |-> <<"J", "a">>]}

\* the records written and read
SaveTargets == {"u1"}

\* lines 65-71: the directory exists, mkstemp creates an empty temporary file in it.
\* before, read_before and listed_before record the target file, read and list_all as
\* they were when the call began.
SaveBegin(entity_type, uuid, data) ==
    /\ wr.pc \in {"idle", "returned", "raised"}
    /\ wr.calls < MaxSaves
    /\ LET file_path == GetFilePath(entity_type, uuid)
           tmp_path == TempPath(file_path, wr.calls + 1)
       IN  /\ heap_files' = (tmp_path :> <<>>) @@ heap_files
           /\ wr' = [pc |-> "write", calls |-> wr.calls + 1, file_path |-> file_path,
                     tmp_path |-> tmp_path, text |-> JsonDump(data), failed |-> "no",
                     entity_type |-> entity_type,
                     before |-> IF file_path \in DOMAIN heap_files
                                THEN heap_files[file_path] ELSE None,
                     read_before |-> Load(heap_files, file_path),
                     listed_before |-> ListAll(heap_files, entity_type)]
    /\ UNCHANGED <<mdvars, index_files, uuid_count, removed, last, rd, thvars>>

\* lines 74-75: json.dump writes the text to the temporary file, piece by piece; the
\* file is closed when the text is complete
SaveWrite ==
    /\ wr.pc = "write"
    /\ LET written == heap_files[wr.tmp_path]
           text == Append(written, wr.text[Len(written) + 1])
       IN  /\ heap_files' = (wr.tmp_path :> text) @@ heap_files
           /\ wr' = [wr EXCEPT !.pc = IF text = wr.text THEN "replace" ELSE "write"]
    /\ UNCHANGED <<mdvars, index_files, uuid_count, removed, last, rd, thvars>>

\* lines 74-75 raise an Exception (the disk is full, a value cannot be serialised)
SaveWriteFails ==
    /\ wr.pc = "write"
    /\ wr' = [wr EXCEPT !.pc = "cleanup", !.failed = "write"]
    /\ UNCHANGED <<mdvars, heap_files, index_files, uuid_count, removed, last, rd, thvars>>

\* line 77: os.replace(tmp_path, file_path), after which the call returns.  A _load
\* that has found the file and not opened it yet can read this version.
SaveReplace ==
    /\ wr.pc = "replace"
    /\ heap_files' = Replace(heap_files, wr.tmp_path, wr.file_path)
    /\ wr' = [wr EXCEPT !.pc = "returned"]
    /\ rd' = IF rd.pc = "open" /\ rd.file_path = wr.file_path
             THEN [rd EXCEPT !.seen = @ \cup {JsonLoad(wr.text)}]
             ELSE rd
    /\ UNCHANGED <<mdvars, index_files, uuid_count, removed, last, thvars>>

\* line 77 raises an OSError: the failure after the temporary file is written and before
\* the rename
SaveReplaceFails ==
    /\ wr.pc = "replace"
    /\ wr' = [wr EXCEPT !.pc = "cleanup", !.failed = "replace"]
    /\ UNCHANGED <<mdvars, heap_files, index_files, uuid_count, removed, last, rd, thvars>>

\* lines 78-83: os.unlink(tmp_path), an OSError of which is ignored (unlink_fails), then
\* the exception is raised again
SaveCleanup(unlink_fails) ==
    /\ wr.pc = "cleanup"
    /\ heap_files' = IF unlink_fails THEN heap_files ELSE Unlink(heap_files, wr.tmp_path)
    /\ wr' = [wr EXCEPT !.pc = "raised"]
    /\ UNCHANGED <<mdvars, index_files, uuid_count, removed, last, rd, thvars>>

\* a KeyboardInterrupt or SystemExit arrives at line 77: `except Exception` does not
\* catch it, so it leaves the call with the temporary file in place
SaveInterrupted ==
    /\ wr.pc = "replace"
    /\ wr' = [wr EXCEPT !.pc = "raised", !.failed = "replace"]
    /\ UNCHANGED <<mdvars, heap_files, index_files, uuid_count, removed, last, rd, thvars>>

\* _load line 92: `if not file_path.exists(): return None`.  seen collects the versions
\* of the record that are in place while the call runs (None: no file).
LoadBegin(entity_type, uuid) ==
    /\ rd.pc \in {"idle", "done"}
    /\ LET file_path == GetFilePath(entity_type, uuid)
       IN  rd' = IF file_path \notin DOMAIN heap_files
                 THEN [pc |-> "done", file_path |-> file_path, seen |-> {None},
                       result |-> None]
                 ELSE [pc |-> "open", file_path |-> file_path,
                       seen |-> {Load(heap_files, file_path)}, result |-> None]
    /\ UNCHANGED <<mdvars, heap_files, index_files, uuid_count, removed, last, wr, thvars>>

\* _load lines 95-99: the file is opened and parsed; a file that is gone or does not
\* parse gives None.  The text read is that of the file opened: no step writes to a
\* file once it has a record's name.
LoadOpen ==
    /\ rd.pc = "open"
    /\ rd' = [rd EXCEPT !.pc = "done", !.result = Load(heap_files, rd.file_path)]
    /\ UNCHANGED <<mdvars, heap_files, index_files, uuid_count, removed, last, wr, thvars>>

NextAtomic ==
    \/ \E u \in SaveTargets : \E d \in SaveDocs(u) : SaveBegin("contacts", u, d)
    \/ SaveWrite
    \/ SaveWriteFails
    \/ SaveReplace
    \/ SaveReplaceFails
    \/ \E unlink_fails \in BOOLEAN : SaveCleanup(unlink_fails)
    \/ SaveInterrupted
    \/ \E u \in SaveTargets : LoadBegin("contacts", u)
    \/ LoadOpen

\* one thread in _save_atomic and one in _load, on the same record
SpecAtomic == Init /\ [][NextAtomic]_vars

\* ---------------------------------------------------------------- IndexManager under threads
\* Two threads call add_to_trie_index / remove_from_trie_index of one IndexManager.
\* A step is one statement of the method or of _get_lock; the dict test, the dict
\* store and the dict read of _get_lock are separate bytecodes, so another thread can
\* run between them.
Idle(t) == threads[t].pc = "idle"

\* the values the threads index: both fall in the bucket file contact_first_name/j/o
LockValues == {<<"j", "o">>, <<"J", "o", "n">>}

\* lines 162-170 (add) and 192-198 (remove): the guards before the lock is looked up
IndexCallBegin(t, op, value, uuid) ==
    /\ Idle(t)
    /\ threads[t].calls < MaxCalls
    /\ LET file_path == GetTriePath(INDEX_CONTACT_FIRST_NAME, value)
           returns == \/ IsBlank(value)
                      \/ op = "remove" /\ file_path \notin DOMAIN index_files
       IN  threads' = [threads EXCEPT ![t] =
               IF returns
               THEN [pc |-> "idle", calls |-> threads[t].calls + 1]
               ELSE [pc |-> "get_lock", calls |-> threads[t].calls + 1, op |-> op,
                     normalized |-> Normalize(value), uuid |-> uuid,
                     file_path |-> file_path]]
    /\ UNCHANGED <<mdvars, heap_files, index_files, uuid_count, removed, last, wr, rd,
                   locks, lock_objs, hist>>

\* _get_lock line 67: if file_path not in self._locks
GetLockTest(t) ==
    /\ threads[t].pc = "get_lock"
    /\ threads' = [threads EXCEPT ![t].pc =
                       IF threads[t].file_path \notin DOMAIN locks THEN "new_lock"
                       ELSE "return_lock"]
    /\ UNCHANGED <<mdvars, heap_files, index_files, uuid_count, removed, last, wr, rd,
                   locks, lock_objs, hist>>

\* _get_lock line 68: self._locks[file_path] = Lock()
GetLockCreate(t) ==
    /\ threads[t].pc = "new_lock"
    /\ LET lock == Len(lock_objs) + 1
       IN  /\ lock_objs' = Append(lock_objs, "free")
           /\ locks' = DictSet(locks, threads[t].file_path, lock)
    /\ threads' = [threads EXCEPT ![t].pc = "return_lock"]
    /\ UNCHANGED <<mdvars, heap_files, index_files, uuid_count, removed, last, wr, rd, hist>>

\* _get_lock line 69: return self._locks[file_path]
GetLockReturn(t) ==
    /\ threads[t].pc = "return_lock"
    /\ LET lock == locks[threads[t].file_path]
       IN  /\ threads' = [threads EXCEPT ![t] = [pc |-> "acquire", lock |-> lock] @@ @]
           /\ hist' = [hist EXCEPT !.granted = @ \cup {<<threads[t].file_path, lock>>}]
    /\ UNCHANGED <<mdvars, heap_files, index_files, uuid_count, removed, last, wr, rd,
                   locks, lock_objs>>

\* with lock: (entry) blocks while the Lock object is held
LockAcquire(t) ==
    /\ threads[t].pc = "acquire"
    /\ lock_objs[threads[t].lock] = "free"
    /\ lock_objs' = [lock_objs EXCEPT ![threads[t].lock] = t]
    /\ threads' = [threads EXCEPT ![t].pc = "load"]
    /\ UNCHANGED <<mdvars, heap_files, index_files, uuid_count, removed, last, wr, rd,
                   locks, hist>>

\* lines 173 / 203: index_data = self._load_trie_index(file_path)
BucketLoad(t) ==
    /\ threads[t].pc = "load"
    /\ threads' = [threads EXCEPT ![t] =
                       [pc |-> "save",
                        index_data |-> LoadIndex(index_files, threads[t].file_path)] @@ @]
    /\ UNCHANGED <<mdvars, heap_files, index_files, uuid_count, removed, last, wr, rd,
                   locks, lock_objs, hist>>

\* lines 175-181 / 205-212: the dict is changed in memory and saved over the bucket file
BucketSave(t) ==
    /\ threads[t].pc = "save"
    /\ LET th == threads[t]
           index_data == IF th.op = "add"
                         THEN DictAddId(th.index_data, th.normalized, th.uuid)
                         ELSE DictRemoveId(th.index_data, th.normalized, th.uuid)
           serial == LoadIndex(hist.serial, th.file_path)
           one_at_a_time == IF th.op = "add"
                            THEN DictAddId(serial, th.normalized, th.uuid)
                            ELSE DictRemoveId(serial, th.normalized, th.uuid)
       IN  /\ index_files' = WriteIndex(index_files, th.file_path, index_data)
           /\ hist' = [hist EXCEPT !.serial = WriteIndex(@, th.file_path, one_at_a_time)]
    /\ threads' = [threads EXCEPT ![t].pc = "release"]
    /\ UNCHANGED <<mdvars, heap_files, uuid_count, removed, last, wr, rd, locks, lock_objs>>

\* with lock: (exit)
LockRelease(t) ==
    /\ threads[t].pc = "release"
    /\ lock_objs' = [lock_objs EXCEPT ![threads[t].lock] = "free"]
    /\ threads' = [threads EXCEPT ![t] = [pc |-> "idle", calls |-> threads[t].calls]]
    /\ UNCHANGED <<mdvars, heap_files, index_files, uuid_count, removed, last, wr, rd,
                   locks, hist>>

NextLock ==
    \E t \in Threads :
        \/ \E op \in {"add", "remove"}, value \in LockValues \cup {<<" ">>}, u \in Uuids :
               IndexCallBegin(t, op, value, u)
        \/ GetLockTest(t)
        \/ GetLockCreate(t)
        \/ GetLockReturn(t)
        \/ LockAcquire(t)
        \/ BucketLoad(t)
        \/ BucketSave(t)
        \/ LockRelease(t)

\* one IndexManager shared by the threads of an embedding application
SpecLock == Init /\ [][NextLock]_vars


\* ---------------------------------------------------------------- AddressBookStorage under threads
\* Two threads call update_contact / remove_contact of one AddressBookStorage, which
\* holds no lock of its own.  A step is one call into the heap or one of
\* _remove_from_indexes / _add_to_indexes; no step fails.

\* the named arguments of the concurrent update_contact calls
ThreadUpdates == {[first_name |-> <<"j", "O">>], [first_name |-> <<"J", "a">>]}

\* a contact is added while no other call is in progress
AddContactAlone(fields) ==
    /\ \A t \in Threads : Idle(t)
    /\ AddContact(fields, <<>>, T1, T1)

\* update_contact lines 112-114, remove_contact lines 146-148: read, return False if absent
RepoCallBegin(t, op, contact_uuid, fields) ==
    /\ Idle(t)
    /\ threads[t].calls < MaxCalls
    /\ LET old_contact == HeapRead(heap_files, "contacts", contact_uuid)
       IN  threads' = [threads EXCEPT ![t] =
               IF Falsy(old_contact)
               THEN [pc |-> "idle", calls |-> threads[t].calls + 1]
               ELSE [pc |-> "remove_from_indexes", calls |-> threads[t].calls + 1,
                     op |-> op, uuid |-> contact_uuid, old_contact |-> old_contact,
                     new_contact |-> fields @@ old_contact]]
    /\ UNCHANGED <<mdvars, heap_files, index_files, uuid_count, removed, last, wr, rd,
                   locks, lock_objs, hist>>

\* update_contact line 116, remove_contact line 150: self._remove_from_indexes(...)
RepoRemoveFromIndexes(t) ==
    /\ threads[t].pc = "remove_from_indexes"
    /\ index_files' = ContactRemoveFromIndexes(index_files, threads[t].uuid,
                                               threads[t].old_contact)
    /\ threads' = [threads EXCEPT ![t].pc = "heap"]
    /\ UNCHANGED <<mdvars, heap_files, uuid_count, removed, last, wr, rd, locks, lock_objs, hist>>

\* update_contact line 132: success = self.heap.update_contact(...);
\* remove_contact line 152: return self.heap.delete_contact(contact_uuid)
RepoHeapCall(t) ==
    /\ threads[t].pc = "heap"
    /\ LET th == threads[t]
           r == IF th.op = "update"
                THEN HeapUpdateContact(heap_files, th.uuid, th.new_contact, T1, T1)
                ELSE HeapDelete(heap_files, "contacts", th.uuid, FALSE)
       IN  /\ heap_files' = r.files
           /\ threads' = [threads EXCEPT ![t] =
                  IF th.op = "update" /\ r.ret = "True"
                  THEN [pc |-> "add_to_indexes", new_contact |-> r.data] @@ @
                  ELSE [pc |-> "idle", calls |-> th.calls]]
    /\ UNCHANGED <<mdvars, index_files, uuid_count, removed, last, wr, rd, locks, lock_objs, hist>>

\* update_contact lines 134-135: if success: self._add_to_indexes(...)
RepoAddToIndexes(t) ==
    /\ threads[t].pc = "add_to_indexes"
    /\ index_files' = ContactAddToIndexes(index_files, threads[t].uuid,
                                          threads[t].new_contact)
    /\ threads' = [threads EXCEPT ![t] = [pc |-> "idle", calls |-> threads[t].calls]]
    /\ UNCHANGED <<mdvars, heap_files, uuid_count, removed, last, wr, rd, locks, lock_objs, hist>>

NextThreads ==
    \/ \E fields \in ContactInputs : AddContactAlone(fields)
    \/ \E t \in Threads :
        \/ \E u \in Uuids, fields \in ThreadUpdates : RepoCallBegin(t, "update", u, fields)
        \/ \E u \in Uuids : RepoCallBegin(t, "remove", u, <<>>)
        \/ RepoRemoveFromIndexes(t)
        \/ RepoHeapCall(t)
        \/ RepoAddToIndexes(t)

\* one AddressBookStorage shared by the threads of an embedding application
SpecThreads == Init /\ [][NextThreads]_vars

\* ---------------------------------------------------------------- repositories with drift
\* The repositories when the indexes can drift from the heap: the unlink of
\* HeapStorage.delete_* can fail after the index entries were removed, and a record
\* file can be deleted through HeapStorage directly, behind the repository.
DriftContactInputs ==
    {[first_name |-> <<"j", "o", "n", " ">>, last_name |-> <<"J", "o">>,
      phones |-> <<<<"1", "6", "1">>>>, emails |-> <<<<"a", "@", "b">>>>],
     [first_name |-> <<" ">>, last_name |-> <<"j">>,
      phones |-> <<<<" ">>>>, emails |-> <<<<"a", "@", "b">>>>]}

\* the named arguments of update_contact that are not None
DriftContactUpdates == {[first_name |-> <<"j", "O">>]}

\* the files a repository call leaves behind become the state
RepoCalled(r) ==
    /\ heap_files' = r.heap
    /\ index_files' = r.index

DoAddContact(fields) ==
    /\ uuid_count < MaxIds
    /\ RepoCalled(AddContactOp(heap_files, index_files, fields @@ [note_ids |-> <<>>],
                               <<>>, Uuid4(uuid_count + 1), T1, T1))
    /\ uuid_count' = uuid_count + 1
    /\ UNCHANGED <<mdvars, removed, last, wr, rd, thvars>>

DoUpdateContact(contact_uuid, fields) ==
    /\ RepoCalled(UpdateContactOp(heap_files, index_files, contact_uuid, fields, <<>>,
                                  T1, T1))
    /\ UNCHANGED <<mdvars, uuid_count, removed, last, wr, rd, thvars>>

DoRemoveContact(contact_uuid, unlink_fails) ==
    /\ RepoCalled(RemoveContactOp(heap_files, index_files, contact_uuid, unlink_fails))
    /\ UNCHANGED <<mdvars, uuid_count, removed, last, wr, rd, thvars>>

DoAddNote(title, extra) ==
    /\ uuid_count < MaxIds
    /\ RepoCalled(AddNoteOp(heap_files, index_files,
                            [title |-> title, content |-> <<"x">>, tags |-> <<>>,
                             contact_ids |-> <<>>],
                            extra, Uuid4(uuid_count + 1), T1, T1))
    /\ uuid_count' = uuid_count + 1
    /\ UNCHANGED <<mdvars, removed, last, wr, rd, thvars>>

DoUpdateNote(note_uuid, fields) ==
    /\ RepoCalled(UpdateNoteOp(heap_files, index_files, note_uuid, fields, <<>>, T1, T1))
    /\ UNCHANGED <<mdvars, uuid_count, removed, last, wr, rd, thvars>>

DoDeleteNote(note_uuid, unlink_fails) ==
    /\ RepoCalled(DeleteNoteOp(heap_files, index_files, note_uuid, unlink_fails))
    /\ UNCHANGED <<mdvars, uuid_count, removed, last, wr, rd, thvars>>

\* rebuild_indexes() of either repository
DoRebuild(entity_type) ==
    /\ \E all_entities \in ScanOrders(ListAll(heap_files, entity_type)) :
           index_files' = IF entity_type = "contacts"
                          THEN RebuildContactsOp(index_files, all_entities).index
                          ELSE RebuildNotesOp(index_files, all_entities).index
    /\ UNCHANGED <<mdvars, heap_files, uuid_count, removed, last, wr, rd, thvars>>

\* HeapStorage.delete_contact / delete_note called directly: the indexes are not told
HeapDeleteDirect(entity_type, uuid) ==
    /\ LET r == HeapDelete(heap_files, entity_type, uuid, FALSE)
       IN  /\ r.ret = "True"
           /\ heap_files' = r.files
    /\ UNCHANGED <<mdvars, index_files, uuid_count, removed, last, wr, rd, thvars>>

NextDrift ==
    \/ \E fields \in DriftContactInputs : DoAddContact(fields)
    \/ \E u \in Uuids, fields \in DriftContactUpdates : DoUpdateContact(u, fields)
    \/ \E u \in Uuids, unlink_fails \in BOOLEAN : DoRemoveContact(u, unlink_fails)
    \/ \E extra \in NoteExtras : DoAddNote(<<"J", "o">>, extra)
    \/ \E u \in Uuids : DoUpdateNote(u, [title |-> <<"j", "o", "n", " ">>])
    \/ \E u \in Uuids, unlink_fails \in BOOLEAN : DoDeleteNote(u, unlink_fails)
    \/ \E entity_type \in {"contacts", "notes"} : DoRebuild(entity_type)
    \/ \E entity_type \in {"contacts", "notes"}, u \in Uuids :
           HeapDeleteDirect(entity_type, u)

\* the repositories when unlink can fail and HeapStorage is also called directly
SpecDrift == Init /\ [][NextDrift]_vars

\* ---------------------------------------------------------------- HeapStorage with faults
\* HeapStorage called directly when a system call can fail and a record file can be
\* damaged behind the store.  `last` records the call: whether the record file existed
\* and parsed before it, whether a system call of it failed, and how it ended (the
\* value returned, or the exception that left the method).

\* what is left of a record file that was cut short: nothing, or all but the closing brace
CorruptTexts(text) == {<<>>, SubSeq(text, 1, Len(text) - 1)}

FaultCalled(op, entity_type, uuid, failed, ret) ==
    [op |-> op, entity_type |-> entity_type, uuid |-> uuid,
     existed |-> GetFilePath(entity_type, uuid) \in DOMAIN heap_files,
     parsed |-> HeapRead(heap_files, entity_type, uuid) # None,
     failed |-> failed, ret |-> ret]

\* create_contact / create_note; when the write or the rename of _save_atomic fails the
\* temporary file is unlinked and the exception is raised again (lines 77-83)
FaultCreate(entity_type, data, save_fails) ==
    /\ uuid_count < MaxIds
    /\ LET uuid == Uuid4(uuid_count + 1)
           r == IF entity_type = "contacts"
                THEN HeapCreateContact(heap_files, data, uuid, T1, T1)
                ELSE HeapCreateNote(heap_files, data, uuid, T1, T1)
       IN  /\ heap_files' = IF save_fails THEN heap_files ELSE r.files
           /\ last' = FaultCalled("create", entity_type, uuid, save_fails,
                                  IF save_fails THEN "OSError" ELSE "uuid")
    /\ uuid_count' = uuid_count + 1
    /\ UNCHANGED <<mdvars, index_files, removed, wr, rd, thvars>>

\* read_contact / read_note
FaultRead(entity_type, uuid) ==
    /\ last' = FaultCalled("read", entity_type, uuid, FALSE,
                           IF HeapRead(heap_files, entity_type, uuid) = None THEN "None"
                           ELSE "dict")
    /\ UNCHANGED <<mdvars, heap_files, index_files, uuid_count, removed, wr, rd, thvars>>

\* update_contact / update_note; _save_atomic is reached when the file exists and parses
FaultUpdate(entity_type, uuid, new_data, save_fails) ==
    /\ LET r == HeapUpdate(heap_files, entity_type, uuid, new_data, T1, T1)
           failed == save_fails /\ r.ret = "True"
       IN  /\ heap_files' = IF failed THEN heap_files ELSE r.files
           /\ last' = FaultCalled("update", entity_type, uuid, failed,
                                  IF failed THEN "OSError" ELSE r.ret)
    /\ UNCHANGED <<mdvars, index_files, uuid_count, removed, wr, rd, thvars>>

\* delete_contact / delete_note; unlink is reached when the file exists
FaultDelete(entity_type, uuid, unlink_fails) ==
    /\ LET r == HeapDelete(heap_files, entity_type, uuid, unlink_fails)
       IN  /\ heap_files' = r.files
           /\ last' = FaultCalled("delete", entity_type, uuid,
                                  unlink_fails
                                    /\ GetFilePath(entity_type, uuid) \in DOMAIN heap_files,
                                  r.ret)
    /\ UNCHANGED <<mdvars, index_files, uuid_count, removed, wr, rd, thvars>>

\* a record file that parses is cut short (disk fault, or edited by another program)
CorruptRecord(entity_type, uuid) ==
    /\ HeapRead(heap_files, entity_type, uuid) # None
    /\ \E text \in CorruptTexts(heap_files[GetFilePath(entity_type, uuid)]) :
           heap_files' = [heap_files EXCEPT ![GetFilePath(entity_type, uuid)] = text]
    /\ UNCHANGED <<mdvars, index_files, uuid_count, removed, last, wr, rd, thvars>>

NextFaults ==
    \E entity_type \in {"contacts", "notes"} :
        \/ \E d \in (IF entity_type = "contacts" THEN HeapContactInputs ELSE HeapNoteInputs),
              save_fails \in BOOLEAN : FaultCreate(entity_type, d, save_fails)
        \/ \E u \in Uuids : FaultRead(entity_type, u)
        \/ \E u \in Uuids, save_fails \in BOOLEAN,
              d \in (IF entity_type = "contacts" THEN HeapContactUpdates
                     ELSE HeapNoteUpdates) : FaultUpdate(entity_type, u, d, save_fails)
        \/ \E u \in Uuids, unlink_fails \in BOOLEAN : FaultDelete(entity_type, u, unlink_fails)
        \/ \E u \in Uuids : CorruptRecord(entity_type, u)

\* HeapStorage used directly by one client, with failing system calls and damaged files
SpecFaults == Init /\ [][NextFaults]_vars

\* ---------------------------------------------------------------- one contact's life
\* A contacts repository on an empty store: contact A is created with the name "John",
\* renamed to "Jonathan", removed, and the indexes are rebuilt.  The clock and the
\* other fields of A are free.  `last` tells how far the run has come and what
\* rebuild_indexes returned.
John == <<"J", "o", "h", "n">>
Jonathan == <<"J", "o", "n", "a", "t", "h", "a", "n">>

\* the other named arguments of the add_contact call
ScenarioFields ==
    {[last_name |-> l, phones |-> p, emails |-> <<>>] :
        l \in {<<>>, <<"J", "o">>}, p \in {<<>>, <<<<"1", "6", "1">>>>}}

ScenarioCreate(fields, t1, t2) ==
    /\ last.op = "none"
    /\ heap_files = <<>> /\ index_files = <<>> /\ uuid_count = 0
    /\ RepoCalled(AddContactOp(heap_files, index_files,
                               [first_name |-> John, note_ids |-> <<>>] @@ fields,
                               <<>>, Uuid4(uuid_count + 1), t1, t2))
    /\ uuid_count' = uuid_count + 1
    /\ last' = [op |-> "created", A |-> Uuid4(uuid_count + 1)]
    /\ UNCHANGED <<mdvars, removed, wr, rd, thvars>>

ScenarioUpdate(t1, t2) ==
    /\ last.op = "created"
    /\ RepoCalled(UpdateContactOp(heap_files, index_files, last.A,
                                  [first_name |-> Jonathan], <<>>, t1, t2))
    /\ last' = [last EXCEPT !.op = "updated"]
    /\ UNCHANGED <<mdvars, uuid_count, removed, wr, rd, thvars>>

ScenarioDelete ==
    /\ last.op = "updated"
    /\ RepoCalled(RemoveContactOp(heap_files, index_files, last.A, FALSE))
    /\ last' = [last EXCEPT !.op = "deleted"]
    /\ UNCHANGED <<mdvars, uuid_count, removed, wr, rd, thvars>>

ScenarioRebuild ==
    /\ last.op = "deleted"
    /\ \E all_entities \in ScanOrders(ListAll(heap_files, "contacts")) :
           LET r == RebuildContactsOp(index_files, all_entities)
           IN  /\ index_files' = r.index
               /\ last' = [op |-> "rebuilt", A |-> last.A, ret |-> r.ret]
    /\ UNCHANGED <<mdvars, heap_files, uuid_count, removed, wr, rd, thvars>>

NextScenario ==
    \/ \E fields \in ScenarioFields, t1, t2 \in Times : ScenarioCreate(fields, t1, t2)
    \/ \E t1, t2 \in Times : ScenarioUpdate(t1, t2)
    \/ ScenarioDelete
    \/ ScenarioRebuild

\* create "John", rename to "Jonathan", remove, rebuild
SpecScenario == Init /\ [][NextScenario]_vars

\* ---------------------------------------------------------------- NotesStorage alone
\* The notes repository under single-threaded use with no failure.  A title can be
\* empty or blank; created_at is now() (T1, a day of January 2024) or given by the
\* caller of add_note (February 2024, January 2025); update_note runs later (T2) and
\* its caller can also name created_at, which the heap does not take over.
NoteTitles == Titles \cup {<<>>, <<" ">>}

\* **extra_fields of add_note
NoteCreatedAt == {<<>>, [created_at |-> T3], [created_at |-> T4]}

\* the arguments of update_note: title or nothing, and **extra_fields
NoteTitleUpdates == {<<>>} \cup {[title |-> n] : n \in NoteTitles}

NextNotes ==
    \/ \E title \in NoteTitles, extra \in NoteCreatedAt : AddNote(title, extra, T1, T1)
    \/ \E u \in Uuids, fields \in NoteTitleUpdates, extra \in {<<>>, [created_at |-> T0]} :
           UpdateNote(u, fields, extra, T2, T2)
    \/ \E u \in Uuids : DeleteNote(u)

\* add_note / update_note / delete_note, no failure
SpecNotes == Init /\ [][NextNotes]_vars

\* ---------------------------------------------------------------- updates whose heap rewrite can fail
\* update_contact and update_note when the call of HeapStorage.update_* inside them
\* can end in each of its three ways.

\* how HeapStorage.update_* ends once the repository has read the record: it rewrites
\* the file ("ok"), _save_atomic raises and the file is as before ("OSError"), or the
\* file has been deleted since the read and the update returns False ("gone")
HeapOutcomes == {"ok", "OSError", "gone"}

\* UpdateContactWith changed: when the heap rewrite fails the indexes are as before the call
UpdateContactWithRestores(hf, ix, contact_uuid, fields, extra, t1, t2, outcome) ==
    IF outcome = "ok" \/ Falsy(HeapRead(hf, "contacts", contact_uuid))
    THEN UpdateContactOp(hf, ix, contact_uuid, fields, extra, t1, t2)
    ELSE [heap |-> hf, index |-> ix, ret |-> "OSError"]

\* update_contact (lines 112-137) for an outcome of heap.update_contact
UpdateContactWith(hf, ix, contact_uuid, fields, extra, t1, t2, outcome) ==
    LET old_contact == HeapRead(hf, "contacts", contact_uuid)
        ix1 == ContactRemoveFromIndexes(ix, contact_uuid, old_contact)
    IN  IF outcome = "ok" \/ Falsy(old_contact)
        THEN UpdateContactOp(hf, ix, contact_uuid, fields, extra, t1, t2)
        ELSE IF outcome = "OSError"
        THEN [heap |-> hf, index |-> ix1, ret |-> "OSError"]
        ELSE [heap |-> Unlink(hf, GetFilePath("contacts", contact_uuid)),
              index |-> ix1, ret |-> "False"]

\* update_note (lines 114-139) for an outcome of heap.update_note
UpdateNoteWith(hf, ix, note_uuid, fields, extra, t1, t2, outcome) ==
    LET old_note == HeapRead(hf, "notes", note_uuid)
        done == UpdateNoteOp(hf, ix, note_uuid, fields, extra, t1, t2)
    IN  IF outcome = "ok" \/ Falsy(old_note) THEN done
        ELSE IF outcome = "OSError"
        THEN [heap |-> hf, index |-> done.index, ret |-> "OSError"]
        ELSE [heap |-> Unlink(hf, GetFilePath("notes", note_uuid)),
              index |-> done.index, ret |-> "False"]

\* the arguments of add_contact: one phone is blank
UpdContactInputs ==
    {[first_name |-> <<"j", "o", "n", " ">>, last_name |-> <<"J", "o">>,
      phones |-> <<<<"1", "6", "1">>, <<" ">>>>, emails |-> <<<<"a", "@", "b">>>>]}

\* the named arguments of update_contact that are not None
UpdContactUpdates == {<<>>, [first_name |-> <<"j", "O">>]}

\* the named arguments of update_note that are not None
UpdNoteUpdates == {<<>>, [title |-> <<"j", "o", "n", " ">>]}

\* **extra_fields of update_contact and update_note
UpdExtras == {<<>>, [nickname |-> <<"x">>, created_at |-> T3]}

UpdAddContact(fields) ==
    /\ uuid_count < MaxIds
    /\ RepoCalled(AddContactOp(heap_files, index_files, fields @@ [note_ids |-> <<>>],
                               <<>>, Uuid4(uuid_count + 1), T1, T1))
    /\ uuid_count' = uuid_count + 1
    /\ UNCHANGED <<mdvars, removed, last, wr, rd, thvars>>

UpdAddNote(title) ==
    /\ uuid_count < MaxIds
    /\ RepoCalled(AddNoteOp(heap_files, index_files,
                            [title |-> title, content |-> <<"x">>, tags |-> <<>>,
                             contact_ids |-> <<>>],
                            <<>>, Uuid4(uuid_count + 1), T1, T1))
    /\ uuid_count' = uuid_count + 1
    /\ UNCHANGED <<mdvars, removed, last, wr, rd, thvars>>

UpdUpdateContact(contact_uuid, fields, extra, outcome) ==
    /\ RepoCalled(UpdateContactWith(heap_files, index_files, contact_uuid, fields, extra,
                                    T2, T2, outcome))
    /\ UNCHANGED <<mdvars, uuid_count, removed, last, wr, rd, thvars>>

UpdUpdateNote(note_uuid, fields, extra, outcome) ==
    /\ RepoCalled(UpdateNoteWith(heap_files, index_files, note_uuid, fields, extra,
                                 T2, T2, outcome))
    /\ UNCHANGED <<mdvars, uuid_count, removed, last, wr, rd, thvars>>

\* rebuild_indexes() of AddressBookStorage
UpdRebuildContacts ==
    /\ \E all_entities \in ScanOrders(ListAll(heap_files, "contacts")) :
           index_files' = RebuildContactsOp(index_files, all_entities).index
    /\ UNCHANGED <<mdvars, heap_files, uuid_count, removed, last, wr, rd, thvars>>

NextUpdates ==
    \/ \E fields \in UpdContactInputs : UpdAddContact(fields)
    \/ UpdAddNote(<<"J", "o">>)
    \/ \E u \in Uuids, fields \in UpdContactUpdates, extra \in UpdExtras,
          outcome \in HeapOutcomes : UpdUpdateContact(u, fields, extra, outcome)
    \/ \E u \in Uuids, fields \in UpdNoteUpdates, extra \in UpdExtras,
          outcome \in HeapOutcomes : UpdUpdateNote(u, fields, extra, outcome)
    \/ UpdRebuildContacts

\* the repositories when the heap rewrite of an update can fail
SpecUpdates == Init /\ [][NextUpdates]_vars

\* ---------------------------------------------------------------- models: Record and AddressBook
\* The in-memory book of the command line: AddressBook (a UserDict from name to Record)
\* and Record with its phones and birthday.  A Record is modelled by the fields these
\* methods read: first_name.value, the values of phones, birthday.value.  `last`
\* records the call: its arguments, the book before it, the value returned or the
\* exception raised.

stvars == <<heap_files, index_files, uuid_count, removed, wr, rd, thvars>>

\* Record(name)
NewRecord(name) == [first_name |-> name, phones |-> <<>>, birthday |-> None]

\* SetItem changed: a name that is already a key is stored again
SetItemReplaces(data, key, value) ==
    IF key # value.first_name THEN [data |-> data, ret |-> "ValueError"]
    ELSE [data |-> (key :> value) @@ data, ret |-> "None"]

\* AddressBook.__setitem__(key, value); value is a Record (the isinstance test passes)
SetItem(data, key, value) ==
    IF key # value.first_name THEN [data |-> data, ret |-> "ValueError"]
    ELSE IF key \in DOMAIN data THEN [data |-> data, ret |-> "RecordAlreadyExistsError"]
    ELSE [data |-> (key :> value) @@ data, ret |-> "None"]

\* AddressBook.add_record(record)
AddRecordOp(data, record) == SetItem(data, record.first_name, record)

\* AddressBook.find(name): the Record or None
Find(data, name) == IF name \notin DOMAIN data THEN None ELSE data[name]

\* AddressBook.delete(name), through __delitem__
DeleteOp(data, name) ==
    IF name \notin DOMAIN data THEN [data |-> data, ret |-> "ContactNotFoundError"]
    ELSE [data |-> [k \in DOMAIN data \ {name} |-> data[k]], ret |-> "None"]

\* the characters 0-9 (the \d of the patterns, for ASCII text)
IsDigit(c) == c \in {"0", "1", "2", "3", "4", "5", "6", "7", "8", "9"}

\* re.split(r'[x]|ext', text)[0]: the text before the first "x" or "ext"
BeforeExt(text) ==
    LET cuts == {i \in 1..Len(text) :
                    \/ text[i] = "x"
                    \/ i + 2 <= Len(text) /\ SubSeq(text, i, i + 2) = <<"e", "x", "t">>}
    IN  IF cuts = {} THEN text
        ELSE SubSeq(text, 1, (CHOOSE i \in cuts : \A j \in cuts : i <= j) - 1)

UA_CODES ==
    {<<"0", "3", "9">>, <<"0", "5", "0">>, <<"0", "6", "3">>, <<"0", "6", "6">>,
     <<"0", "6", "7">>, <<"0", "6", "8">>, <<"0", "9", "1">>, <<"0", "9", "2">>,
     <<"0", "9", "3">>, <<"0", "9", "4">>, <<"0", "9", "5">>, <<"0", "9", "6">>,
     <<"0", "9", "7">>, <<"0", "9", "8">>, <<"0", "9", "9">>}

\* Phone.normalize_ua_phone(phone).  None is given as the empty string, which is never a
\* result otherwise (every result starts with "+").
NormalizeUaPhone(phone) ==
    LET phone_without_ext == BeforeExt(Lower(phone))
        all_digits == SelectSeq(phone_without_ext, IsDigit)
        digits == IF StartsWith(all_digits, <<"0", "0">>)
                  THEN SubSeq(all_digits, 3, Len(all_digits))
                  ELSE all_digits
        n == Len(digits)
        ua == CASE StartsWith(digits, <<"3", "8", "0">>) /\ n = 12 ->
                     [code |-> SubSeq(digits, 4, 6), number_part |-> SubSeq(digits, 4, n)]
                [] StartsWith(digits, <<"0">>) /\ n = 10 ->
                     [code |-> SubSeq(digits, 2, 4), number_part |-> SubSeq(digits, 2, n)]
                [] StartsWith(digits, <<"8", "0">>) /\ n = 11 ->
                     [code |-> SubSeq(digits, 3, 5), number_part |-> SubSeq(digits, 3, n)]
                [] n = 9 ->
                     [code |-> SubSeq(digits, 1, 3), number_part |-> digits]
                [] OTHER -> [code |-> <<>>, number_part |-> <<>>]
    IN  IF all_digits = <<>> THEN <<>>
        ELSE IF n >= 10 /\ n <= 15 /\ digits[1] # "0" THEN <<"+">> \o digits
        ELSE IF ua.code \in UA_CODES /\ Len(ua.number_part) = 9
        THEN <<"+", "3", "8", "0">> \o ua.number_part
        ELSE <<>>

\* Record.find_phone(phone): the stored value equal to phone, or None (given as the
\* empty string)
FindPhone(phones, phone) ==
    IF \E i \in 1..Len(phones) : phones[i] = phone THEN phone ELSE <<>>

\* Record.add_phone(phone): Phone(phone) stores the normalized number
AddPhoneOp(phones, phone) ==
    IF FindPhone(phones, phone) # <<>>
    THEN [phones |-> phones, ret |-> "PhoneAlreadyExistsError"]
    ELSE IF NormalizeUaPhone(phone) = <<>>
    THEN [phones |-> phones, ret |-> "InvalidPhoneFormatError"]
    ELSE [phones |-> Append(phones, NormalizeUaPhone(phone)), ret |-> "None"]

\* the names of the records
Names == {"John", "Ann"}

\* phone strings typed by the user: "1234567890", "+1234567890", "1234567890x12",
\* "00380501234567", and the invalid "0501234567" and "123"
PhoneInputs ==
    {<<"1", "2", "3", "4", "5", "6", "7", "8", "9", "0">>,
     <<"+", "1", "2", "3", "4", "5", "6", "7", "8", "9", "0">>,
     <<"1", "2", "3", "4", "5", "6", "7", "8", "9", "0", "x", "1", "2">>,
     <<"0", "0", "3", "8", "0", "5", "0", "1", "2", "3", "4", "5", "6", "7">>,
     <<"0", "5", "0", "1", "2", "3", "4", "5", "6", "7">>,
     <<"1", "2", "3">>}

BookCalled(op, arg, ret) ==
    last' = [op |-> op, arg |-> arg, ret |-> ret, before |-> book]

\* book.add_record(Record(name))
BookAddRecord(name) ==
    /\ LET r == AddRecordOp(book, NewRecord(name))
       IN  /\ book' = r.data
           /\ BookCalled("add_record", name, r.ret)
    /\ UNCHANGED <<args, stvars>>

\* book[key] = Record(name)
BookSetItem(key, name) ==
    /\ key # name
    /\ LET r == SetItem(book, key, NewRecord(name))
       IN  /\ book' = r.data
           /\ BookCalled("setitem", key, r.ret)
    /\ UNCHANGED <<args, stvars>>

\* book.delete(name)
BookDelete(name) ==
    /\ LET r == DeleteOp(book, name)
       IN  /\ book' = r.data
           /\ BookCalled("delete", name, r.ret)
    /\ UNCHANGED <<args, stvars>>

\* book.find(name).add_phone(phone) for a name of the book
BookAddPhone(name, phone) ==
    /\ Find(book, name) # None
    /\ Len(book[name].phones) < MaxPhones
    /\ LET r == AddPhoneOp(book[name].phones, phone)
       IN  /\ book' = [book EXCEPT ![name].phones = r.phones]
           /\ BookCalled("add_phone", <<name, phone>>, r.ret)
    /\ UNCHANGED <<args, stvars>>

NextBook ==
    \/ \E name \in Names : BookAddRecord(name)
    \/ \E key, name \in Names : BookSetItem(key, name)
    \/ \E name \in Names : BookDelete(name)
    \/ \E name \in Names, phone \in PhoneInputs : BookAddPhone(name, phone)

\* the in-memory AddressBook and the phones of its records
SpecBook == Init /\ [][NextBook]_vars

\* ---------------------------------------------------------------- models: birthdays
\* datetime.date as [year, month, day]; the arithmetic of the datetime module

Date(y, m, d) == [year |-> y, month |-> m, day |-> d]

IsLeap(y) == (y % 4 = 0 /\ y % 100 # 0) \/ y % 400 = 0

DaysInMonth(y, m) ==
    IF m = 2 THEN (IF IsLeap(y) THEN 29 ELSE 28)
    ELSE IF m \in {4, 6, 9, 11} THEN 30 ELSE 31

RECURSIVE DaysBeforeMonth(_, _)
DaysBeforeMonth(y, m) ==
    IF m = 1 THEN 0 ELSE DaysBeforeMonth(y, m - 1) + DaysInMonth(y, m - 1)

\* date.toordinal(): 1 for 0001-01-01
ToOrdinal(date) ==
    LET y == date.year - 1
    IN  y * 365 + (y \div 4) - (y \div 100) + (y \div 400)
          + DaysBeforeMonth(date.year, date.month) + date.day

\* the years the clock and the congratulation dates can be in
Years == 2024..2027

\* the dates of those years
Calendar ==
    UNION {UNION {{Date(y, m, d) : d \in 1..DaysInMonth(y, m)} : m \in 1..12} : y \in Years}

\* date.fromordinal(n), for a day of Years
FromOrdinal(n) ==
    LET y == CHOOSE y \in Years :
                 ToOrdinal(Date(y, 1, 1)) <= n /\ n <= ToOrdinal(Date(y, 12, 31))
        m == CHOOSE m \in 1..12 :
                 /\ ToOrdinal(Date(y, m, 1)) <= n
                 /\ n <= ToOrdinal(Date(y, m, DaysInMonth(y, m)))
    IN  Date(y, m, n - ToOrdinal(Date(y, m, 1)) + 1)

\* date + timedelta(days)
PlusDays(date, days) == FromOrdinal(ToOrdinal(date) + days)

\* date.weekday(): 0 for Monday ... 6 for Sunday
Weekday(date) == (ToOrdinal(date) + 6) % 7

\* birthday.replace(year=y) raises ValueError for 29 February in a year that is not leap
ReplaceRaises(birthday, y) == birthday.month = 2 /\ birthday.day = 29 /\ ~IsLeap(y)

\* CongratulationDate changed: a Sunday is moved by two days, as a Saturday is
CongratulationDateTwoDays(birthday, today, warn_in_days) ==
    LET end_date == ToOrdinal(today) + warn_in_days
        birthday_this_year == Date(today.year, birthday.month, birthday.day)
        birthday_next_year == Date(today.year + 1, birthday.month, birthday.day)
        in_range(date) == ToOrdinal(today) <= ToOrdinal(date) /\ ToOrdinal(date) <= end_date
        found == IF in_range(birthday_this_year) THEN birthday_this_year
                 ELSE IF ToOrdinal(birthday_this_year) < ToOrdinal(today)
                         /\ in_range(birthday_next_year)
                 THEN birthday_next_year
                 ELSE None
    IN  IF found # None /\ Weekday(found) \in {5, 6}
        THEN PlusDays(found, 2)
        ELSE found

\* lines 47-58 for one record: the congratulation date, or None
CongratulationDate(birthday, today, warn_in_days) ==
    LET end_date == ToOrdinal(today) + warn_in_days
        birthday_this_year == Date(today.year, birthday.month, birthday.day)
        birthday_next_year == Date(today.year + 1, birthday.month, birthday.day)
        in_range(date) == ToOrdinal(today) <= ToOrdinal(date) /\ ToOrdinal(date) <= end_date
        found == IF in_range(birthday_this_year) THEN birthday_this_year
                 ELSE IF ToOrdinal(birthday_this_year) < ToOrdinal(today)
                         /\ in_range(birthday_next_year)
                 THEN birthday_next_year
                 ELSE None
    IN  IF found # None /\ Weekday(found) \in {5, 6}
        THEN PlusDays(found, 7 - Weekday(found))
        ELSE found

\* get_upcoming_birthdays(warn_in_days) when datetime.today() is `today`: the pairs
\* (record, congratulation date) as a set of <<name, date>> (the list is in the order of
\* the dict), unless a replace raises ValueError
GetUpcomingBirthdays(data, today, warn_in_days) ==
    LET with_birthday == {k \in DOMAIN data : data[k].birthday # None}
        raises(b) ==
            \/ ReplaceRaises(b, today.year)
            \/ /\ ToOrdinal(Date(today.year, b.month, b.day)) < ToOrdinal(today)
               /\ ReplaceRaises(b, today.year + 1)
    IN  IF \E k \in with_birthday : raises(data[k].birthday)
        THEN [ret |-> "ValueError", pairs |-> {}]
        ELSE [ret |-> "list",
              pairs |-> {<<k, CongratulationDate(data[k].birthday, today, warn_in_days)>> :
                           k \in {n \in with_birthday :
                                    CongratulationDate(data[n].birthday, today,
                                                       warn_in_days) # None}}]

\* the birthdays of the records: 28, 29 and 31 December 1990, 1 and 4 January 1991,
\* 1 March 1990 and 29 February 2000
Birthdays ==
    {Date(1990, 12, 28), Date(1990, 12, 29), Date(1990, 12, 31), Date(1991, 1, 1),
     Date(1991, 1, 4), Date(1990, 3, 1), Date(2000, 2, 29)}

\* the days on which the book is asked: the end of 2024 (Tuesday 24 to Tuesday 31
\* December), and the end of February 2024 and 2025
Todays ==
    {Date(2024, 12, d) : d \in 24..31} \cup {Date(2024, 2, 23), Date(2025, 2, 22)}

\* warn_in_days
WarnDays == {0, 3, 7}

\* record.add_birthday(birthday) for a record of the book; the birthday is a valid date
\* that is not in the future
BookAddBirthday(name, birthday) ==
    /\ Find(book, name) # None
    /\ book' = [book EXCEPT ![name].birthday = birthday]
    /\ BookCalled("add_birthday", name, "None")
    /\ UNCHANGED <<args, stvars>>

\* book.get_upcoming_birthdays(warn_in_days)
BookGetUpcomingBirthdays(today, warn_in_days) ==
    /\ LET r == GetUpcomingBirthdays(book, today, warn_in_days)
       IN  last' = [op |-> "get_upcoming_birthdays", today |-> today,
                    warn_in_days |-> warn_in_days, ret |-> r.ret, pairs |-> r.pairs]
    /\ UNCHANGED <<book, args, stvars>>

NextBirthdays ==
    \/ \E name \in Names : BookAddRecord(name)
    \/ \E name \in Names, birthday \in Birthdays : BookAddBirthday(name, birthday)
    \/ \E today \in Todays, warn_in_days \in WarnDays :
           BookGetUpcomingBirthdays(today, warn_in_days)

\* the book asked for the upcoming birthdays
SpecBirthdays == Init /\ [][NextBirthdays]_vars

\* ---------------------------------------------------------------- cli: ArgsParser
\* ArgsParser over the deque `args`.  `last` records the call: the deque before it, the
\* exception raised ("no" if none), the value returned; and, as history of the parser,
\* the list it was constructed with and the arguments handed out so far, in order.

\* " ".join(list)
RECURSIVE JoinWithSpace(_)
JoinWithSpace(list) ==
    IF list = <<>> THEN <<>>
    ELSE IF Len(list) = 1 THEN list[1]
    ELSE list[1] \o <<" ">> \o JoinWithSpace(Tail(list))

\* GetNextOp changed: the argument is taken from the right end of the deque
GetNextOpFromRight(deque) ==
    IF deque = <<>> THEN [args |-> deque, raised |-> "IndexError", value |-> <<>>]
    ELSE [args |-> SubSeq(deque, 1, Len(deque) - 1), raised |-> "no",
          value |-> deque[Len(deque)]]

\* get_next()
GetNextOp(deque) ==
    IF deque = <<>> THEN [args |-> deque, raised |-> "IndexError", value |-> <<>>]
    ELSE [args |-> Tail(deque), raised |-> "no", value |-> Head(deque)]

\* get_all_remaining_as_str()
GetAllRemainingAsStrOp(deque) ==
    IF deque = <<>> THEN [args |-> deque, raised |-> "IndexError", value |-> <<>>]
    ELSE [args |-> <<>>, raised |-> "no", value |-> JoinWithSpace(deque)]

\* has_next()
HasNextOp(deque) == Len(deque) > 0

\* the words of a command line: "a1", "b", "a1b"
ArgWords == {<<"a", "1">>, <<"b">>, <<"a", "1", "b">>}

\* the lists an ArgsParser is constructed with
ArgLists == UNION {[1..n -> ArgWords] : n \in 0..MaxArgs}

\* ArgsParser(list): the parser of the behaviour is constructed
ParserNew(list) ==
    /\ last.op = "none"
    /\ args' = list
    /\ last' = [op |-> "ArgsParser", before |-> <<>>, raised |-> "no", value |-> <<>>,
                original |-> list, consumed |-> <<>>]
    /\ UNCHANGED <<book, stvars>>

ParserGetNext ==
    /\ last.op # "none"
    /\ LET r == GetNextOp(args)
       IN  /\ args' = r.args
           /\ last' = [last EXCEPT !.op = "get_next", !.before = args,
                                   !.raised = r.raised, !.value = r.value,
                                   !.consumed = IF r.raised = "no"
                                                THEN Append(@, r.value) ELSE @]
    /\ UNCHANGED <<book, stvars>>

ParserGetAllRemainingAsStr ==
    /\ last.op # "none"
    /\ LET r == GetAllRemainingAsStrOp(args)
       IN  /\ args' = r.args
           /\ last' = [last EXCEPT !.op = "get_all_remaining_as_str", !.before = args,
                                   !.raised = r.raised, !.value = r.value,
                                   !.consumed = @ \o (IF r.raised = "no" THEN args ELSE <<>>)]
    /\ UNCHANGED <<book, stvars>>

ParserHasNext ==
    /\ last.op # "none"
    /\ last' = [last EXCEPT !.op = "has_next", !.before = args, !.raised = "no",
                            !.value = HasNextOp(args)]
    /\ UNCHANGED <<args, book, stvars>>

NextParser ==
    \/ \E list \in ArgLists : ParserNew(list)
    \/ ParserGetNext
    \/ ParserGetAllRemainingAsStr
    \/ ParserHasNext

\* one ArgsParser and the calls made on it
SpecParser == Init /\ [][NextParser]_vars

\* ---------------------------------------------------------------- the index manager alone
\* values given to the prefix index: "Jo", "jo", "jon " and the blank " "
TrieValues == Titles \cup {<<"j", "o">>, <<" ">>}

\* values given to the hash index: "161" and the blank " "
HashValues == {<<"1", "6", "1">>, <<" ">>}

\* dates given to the date index: two times of one day
IndexDates == {T1, T2}

\* the lists of index names given to rebuild_index_set
RebuildNames == {{INDEX_NOTE_TITLE}, {INDEX_CONTACT_PHONE}, NOTE_INDEXES, CONTACT_INDEXES}

IndexAddToTrie(value, uuid) ==
    /\ index_files' = AddToTrieIndex(index_files, INDEX_NOTE_TITLE, value, uuid)
    /\ UNCHANGED <<mdvars, heap_files, uuid_count, removed, last, wr, rd, thvars>>

IndexRemoveFromTrie(value, uuid) ==
    /\ index_files' = RemoveFromTrieIndex(index_files, INDEX_NOTE_TITLE, value, uuid)
    /\ UNCHANGED <<mdvars, heap_files, uuid_count, removed, last, wr, rd, thvars>>

IndexAddToHash(value, uuid) ==
    /\ index_files' = AddToHashIndex(index_files, INDEX_CONTACT_PHONE, value, uuid)
    /\ UNCHANGED <<mdvars, heap_files, uuid_count, removed, last, wr, rd, thvars>>

IndexRemoveFromHash(value, uuid) ==
    /\ index_files' = RemoveFromHashIndex(index_files, INDEX_CONTACT_PHONE, value, uuid)
    /\ UNCHANGED <<mdvars, heap_files, uuid_count, removed, last, wr, rd, thvars>>

IndexAddToDate(date_iso, uuid) ==
    /\ index_files' = AddToDateIndex(index_files, INDEX_NOTE_CREATION_DATE, date_iso, uuid)
    /\ UNCHANGED <<mdvars, heap_files, uuid_count, removed, last, wr, rd, thvars>>

IndexRemoveFromDate(date_iso, uuid) ==
    /\ index_files' = RemoveFromDateIndex(index_files, INDEX_NOTE_CREATION_DATE, date_iso, uuid)
    /\ UNCHANGED <<mdvars, heap_files, uuid_count, removed, last, wr, rd, thvars>>

IndexRebuildIndexSet(index_names) ==
    /\ index_files' = RebuildIndexSet(index_files, index_names)
    /\ UNCHANGED <<mdvars, heap_files, uuid_count, removed, last, wr, rd, thvars>>

NextIndex ==
    \/ \E value \in TrieValues, uuid \in Uuids : IndexAddToTrie(value, uuid)
    \/ \E value \in TrieValues, uuid \in Uuids : IndexRemoveFromTrie(value, uuid)
    \/ \E value \in HashValues, uuid \in Uuids : IndexAddToHash(value, uuid)
    \/ \E value \in HashValues, uuid \in Uuids : IndexRemoveFromHash(value, uuid)
    \/ \E date_iso \in IndexDates, uuid \in Uuids : IndexAddToDate(date_iso, uuid)
    \/ \E date_iso \in IndexDates, uuid \in Uuids : IndexRemoveFromDate(date_iso, uuid)
    \/ \E index_names \in RebuildNames : IndexRebuildIndexSet(index_names)

\* one IndexManager on an empty index root and the calls made on it
SpecIndex == Init /\ [][NextIndex]_vars

\* ---------------------------------------------------------------- values with separators and dots
\* values given to the prefix index: "/x", "I/O" and ".x"
PathValues == {<<"/", "x">>, <<"I", "/", "O">>, <<".", "x">>}

\* prefixes searched: "/", "I/" and "."
PathPrefixes == {<<"/">>, <<"I", "/">>, <<".">>}

\* the bucket file and the directory search_by_prefix looks into (lines 231-257)
SearchPaths(index_type, prefix) ==
    LET normalized_prefix == Normalize(prefix)
    IN  IF normalized_prefix = <<>> THEN {}
        ELSE IF Len(normalized_prefix) < 2
        THEN {JoinPath(index_type, "_short", normalized_prefix[1]),
              JoinDir(index_type, normalized_prefix[1])}
        ELSE {JoinPath(index_type, normalized_prefix[1], normalized_prefix[2])}

PathSearchByPrefix(prefix) ==
    /\ last' = [op |-> "search_by_prefix", arg |-> prefix,
                ret |-> SearchByPrefix(index_files, INDEX_NOTE_TITLE, prefix)]
    /\ UNCHANGED <<mdvars, heap_files, index_files, uuid_count, removed, wr, rd, thvars>>

NextPaths ==
    \/ \E value \in PathValues, uuid \in Uuids : IndexAddToTrie(value, uuid)
    \/ \E value \in PathValues, uuid \in Uuids : IndexRemoveFromTrie(value, uuid)
    \/ \E prefix \in PathPrefixes : PathSearchByPrefix(prefix)

\* one IndexManager given values that hold "/" or "." in their first two characters
SpecPaths == Init /\ [][NextPaths]_vars

\* ---------------------------------------------------------------- bucket writes step by step
\* A thread inside add/remove of the prefix index or of the date index, with
\* _atomic_write_json taken one statement at a time, next to a thread that searches.
\* The threads call as often as they like: the calls are not counted.
\* The temporary file of a write belongs to the record of its thread: `tmp` is "none",
\* "empty" (created by mkstemp, or holding a part of the text) or "written" (the
\* whole text of `new_data`, not renamed yet).
ScanTitle == <<"J", "o">>
ScanDate == T1

\* lines 162-170, 192-198, 425-429, 446-450: the guards before the lock is looked up
BucketCallBegin(t, kind, op, uuid) ==
    /\ Idle(t)
    /\ LET value == IF kind = "trie" THEN ScanTitle ELSE ScanDate
           file_path == IF kind = "trie" THEN GetTriePath(INDEX_NOTE_TITLE, value)
                        ELSE GetDatePath(INDEX_NOTE_CREATION_DATE, value)
           returns == \/ kind = "trie" /\ IsBlank(value)
                      \/ op = "remove" /\ file_path \notin DOMAIN index_files
       IN  threads' = [threads EXCEPT ![t] =
               IF returns
               THEN [pc |-> "idle", calls |-> threads[t].calls]
               ELSE [pc |-> "get_lock", calls |-> threads[t].calls, kind |-> kind,
                     op |-> op, value |-> value, uuid |-> uuid, file_path |-> file_path,
                     tmp |-> "none", raised |-> FALSE]]
    /\ UNCHANGED <<mdvars, heap_files, index_files, uuid_count, removed, last, wr, rd,
                   locks, lock_objs, hist>>

\* the bucket file th.file_path as the method of the thread leaves it, from the dict
\* the thread has loaded
Mutated(th) ==
    LET one == (th.file_path :> th.index_data)
    IN  CASE th.kind = "trie" /\ th.op = "add" ->
                 AddToTrieIndex(one, INDEX_NOTE_TITLE, th.value, th.uuid)
          [] th.kind = "trie" /\ th.op = "remove" ->
                 RemoveFromTrieIndex(one, INDEX_NOTE_TITLE, th.value, th.uuid)
          [] th.kind = "date" /\ th.op = "add" ->
                 AddToDateIndex(one, INDEX_NOTE_CREATION_DATE, th.value, th.uuid)
          [] th.kind = "date" /\ th.op = "remove" ->
                 RemoveFromDateIndex(one, INDEX_NOTE_CREATION_DATE, th.value, th.uuid)

\* lines 175-181, 205-212 (a prefix bucket is always written), 434-440, 455-459 (a day
\* file is written only when its list changes); then lines 79-85: tempfile.mkstemp in the
\* directory of the bucket file
BucketMkstemp(t) ==
    /\ threads[t].pc = "save"
    /\ LET th == threads[t]
           writes == th.kind = "trie" \/ Mutated(th)[th.file_path] # th.index_data
       IN  threads' = [threads EXCEPT ![t] =
               IF writes
               THEN [pc |-> "dump", tmp |-> "empty",
                     new_data |-> Mutated(th)[th.file_path]] @@ th
               ELSE [th EXCEPT !.pc = "release"]]
    /\ UNCHANGED <<mdvars, heap_files, index_files, uuid_count, removed, last, wr, rd,
                   locks, lock_objs, hist>>

\* lines 87-89: json.dump into the temporary file, closed at the end of the `with`
BucketDump(t) ==
    /\ threads[t].pc = "dump"
    /\ threads' = [threads EXCEPT ![t].pc = "replace", ![t].tmp = "written"]
    /\ UNCHANGED <<mdvars, heap_files, index_files, uuid_count, removed, last, wr, rd,
                   locks, lock_objs, hist>>

\* BucketDumpFails changed: the exception leaves the method with the lock still held
BucketDumpFailsHolding(t) ==
    /\ threads[t].pc = "dump"
    /\ threads' = [threads EXCEPT ![t] = [pc |-> "idle", calls |-> threads[t].calls]]
    /\ UNCHANGED <<mdvars, heap_files, index_files, uuid_count, removed, last, wr, rd,
                   locks, lock_objs, hist>>

\* lines 92-97: the dump raises; the temporary file is unlinked and the exception
\* leaves the `with lock`
BucketDumpFails(t) ==
    /\ threads[t].pc = "dump"
    /\ threads' = [threads EXCEPT ![t].pc = "release", ![t].tmp = "none",
                                   ![t].raised = TRUE]
    /\ UNCHANGED <<mdvars, heap_files, index_files, uuid_count, removed, last, wr, rd,
                   locks, lock_objs, hist>>

\* line 91: os.replace(tmp_path, file_path)
BucketReplace(t) ==
    /\ threads[t].pc = "replace"
    /\ index_files' = WriteIndex(index_files, threads[t].file_path, threads[t].new_data)
    /\ threads' = [threads EXCEPT ![t].pc = "release", ![t].tmp = "none"]
    /\ UNCHANGED <<mdvars, heap_files, uuid_count, removed, last, wr, rd, locks, lock_objs,
                   hist>>

\* lines 92-97: os.replace raises
BucketReplaceFails(t) ==
    /\ threads[t].pc = "replace"
    /\ threads' = [threads EXCEPT ![t].pc = "release", ![t].tmp = "none",
                                   ![t].raised = TRUE]
    /\ UNCHANGED <<mdvars, heap_files, index_files, uuid_count, removed, last, wr, rd,
                   locks, lock_objs, hist>>

\* the directory tree a reader lists: the bucket files, and next to each bucket file
\* being written the temporary file ".tmp_<random>.json" of its writer.  What
\* _load_trie_index / _read_index_file make of a temporary file is {} while its text
\* does not parse, and the new dict once it is whole.
Listing(ix, ths) ==
    LET writers == {t \in DOMAIN ths : ths[t].pc \in {"dump", "replace"}}
        tmp_path(t) == [ths[t].file_path EXCEPT ![Len(ths[t].file_path)] = ".tmp_" \o t]
    IN  [p \in {tmp_path(t) : t \in writers} |->
            LET t == CHOOSE w \in writers : tmp_path(w) = p
            IN  IF ths[t].tmp = "written" THEN ths[t].new_data ELSE EmptyDict] @@ ix

\* search_by_prefix run by a thread while other threads write: the dicts it can return.
\* first_dir.glob("*.json") yields the files of the directory in any order, and
\* `results[key] = uuids` keeps, for a key found in two files, the file read last.
ScanByPrefix(ix, ths, index_type, prefix) ==
    LET normalized_prefix == Normalize(prefix)
        seen == Listing(ix, ths)
        short_path == JoinPath(index_type, "_short", normalized_prefix[1])
        first_dir == {p \in DOMAIN seen :
                        /\ Len(p) > 1
                        /\ SubSeq(p, 1, Len(p) - 1) = JoinDir(index_type, normalized_prefix[1])}
        one_path == JoinPath(index_type, normalized_prefix[1], normalized_prefix[2])
        scanned == IF Len(normalized_prefix) < 2
                   THEN ({short_path} \cap DOMAIN ix) \cup first_dir
                   ELSE {one_path} \cap DOMAIN ix
        keys == UNION {{k \in DOMAIN seen[p] : StartsWith(k, normalized_prefix)} :
                          p \in scanned}
    IN  IF normalized_prefix = <<>> THEN {EmptyDict}
        ELSE {[k \in keys |-> seen[from[k]][k]] :
                 from \in {f \in [keys -> scanned] : \A k \in keys : k \in DOMAIN seen[f[k]]}}

\* search_by_date run by a thread while other threads write: base_path.rglob("*.json")
ScanByDate(ix, ths, index_name, year, month, day) ==
    IF day # 0 THEN SearchByDate(ix, index_name, year, month, day)
    ELSE SearchByDate(Listing(ix, ths), index_name, year, month, day)

\* the prefixes and the <<year, month, day>> the reader searches
ScanPrefixes == {<<"j">>, <<"J", "o">>}
ScanDays == {<<2024, 0, 0>>, <<2024, 1, 0>>, <<2024, 1, 5>>}

ThreadSearchByPrefix(t, prefix) ==
    /\ Idle(t)
    /\ \E results \in ScanByPrefix(index_files, threads, INDEX_NOTE_TITLE, prefix) :
           threads' = [threads EXCEPT ![t] =
                           [pc |-> "idle", calls |-> threads[t].calls,
                            results |-> results]]
    /\ UNCHANGED <<mdvars, heap_files, index_files, uuid_count, removed, last, wr, rd,
                   locks, lock_objs, hist>>

ThreadSearchByDate(t, q) ==
    /\ Idle(t)
    /\ threads' = [threads EXCEPT ![t] =
                       [pc |-> "idle", calls |-> threads[t].calls,
                        results |-> ScanByDate(index_files, threads,
                                               INDEX_NOTE_CREATION_DATE, q[1], q[2], q[3])]]
    /\ UNCHANGED <<mdvars, heap_files, index_files, uuid_count, removed, last, wr, rd,
                   locks, lock_objs, hist>>

\* thread "a" writes, thread "b" searches
NextScan ==
    \/ \E kind \in {"trie", "date"}, op \in {"add", "remove"}, uuid \in Uuids :
           BucketCallBegin("a", kind, op, uuid)
    \/ GetLockTest("a")
    \/ GetLockCreate("a")
    \/ GetLockReturn("a")
    \/ LockAcquire("a")
    \/ BucketLoad("a")
    \/ BucketMkstemp("a")
    \/ BucketDump("a")
    \/ BucketDumpFails("a")
    \/ BucketReplace("a")
    \/ BucketReplaceFails("a")
    \/ LockRelease("a")
    \/ \E prefix \in ScanPrefixes : ThreadSearchByPrefix("b", prefix)
    \/ \E q \in ScanDays : ThreadSearchByDate("b", q)

\* one writer and one reader of the indexes of one IndexManager
SpecScan == Init /\ [][NextScan]_vars

\* ---------------------------------------------------------------- bucket writers under fairness
\* every statement of a call after its guards: the steps a thread takes by itself once
\* the caller has started the call
ThreadStep(t) ==
    \/ GetLockTest(t)
    \/ GetLockCreate(t)
    \/ GetLockReturn(t)
    \/ LockAcquire(t)
    \/ BucketLoad(t)
    \/ BucketMkstemp(t)
    \/ BucketDump(t)
    \/ BucketDumpFails(t)
    \/ BucketReplace(t)
    \/ BucketReplaceFails(t)
    \/ LockRelease(t)

\* both threads add and remove the uuid "u1" under the same day, as often as they like
NextWriters ==
    \E t \in Threads :
        \/ \E op \in {"add", "remove"} : BucketCallBegin(t, "date", op, Uuid4(1))
        \/ ThreadStep(t)

SpecWriters == Init /\ [][NextWriters]_vars

\* The interpreter runs every thread that can run: a thread that stays able to take
\* its next statement takes it.  Nothing is promised to a thread blocked in
\* Lock.acquire() when the lock is released and taken again before it runs
\* (threading.Lock does not say which waiter proceeds), and nothing obliges a caller to
\* start a call.
FairWriters == SpecWriters /\ \A t \in Threads : WF_vars(ThreadStep(t))

\* ================================================================ claims
\* ---------------------------------------------------------------- observations
LiveContacts == ListAll(heap_files, "contacts")
LiveNotes == ListAll(heap_files, "notes")

\* every <<bucket file, key, uuid>> an index holds
IndexEntries(index_name) ==
    UNION {UNION {{<<p, k, u>> : u \in ListElems(index_files[p][k])} :
                    k \in DOMAIN index_files[p]} :
            p \in {q \in DOMAIN index_files : q[1] = index_name}}

\* the entries a trie index holds when it lists every record of `records` under the
\* current value of `field` (all values, or only those that are not blank)
TrieEntriesOf(records, index_name, field, with_blank) ==
    {<<GetTriePath(index_name, r[field]), Normalize(r[field]), r["uuid"]>> :
        r \in {x \in records : with_blank \/ ~IsBlank(x[field])}}

\* the same for a hash index and a list field
HashEntriesOf(records, index_name, field, with_blank) ==
    UNION {{<<GetHashPath(index_name, v).file_path, Sha1Hex(v), r["uuid"]>> :
                v \in {x \in ListElems(r[field]) : with_blank \/ ~IsBlank(x)}} :
            r \in records}

\* prefixes searched: "j", "Jo", "jon", " JA ", "jax", "o"
PrefixQueries ==
    {<<"j">>, <<"J", "o">>, <<"j", "o", "n">>, <<" ", "J", "A", " ">>, <<"j", "a", "x">>, <<"o">>}

\* values searched exactly: "161", "244", "7", "a@b", "A@b" and the blank " "
ExactQueries ==
    {<<"1", "6", "1">>, <<"2", "4", "4">>, <<"7">>, <<"a", "@", "b">>, <<"A", "@", "b">>, <<" ">>}

\* <<year, month, day>> searched, 0 for an omitted month or day
DateQueries ==
    {<<2024, 0, 0>>, <<2024, 1, 0>>, <<2024, 1, 5>>, <<2024, 2, 0>>, <<2024, 2, 1>>,
     <<2024, 0, 5>>, <<2025, 0, 0>>}

\* ---------------------------------------------------------------- C1
\* C1 as stated: for every live contact and every value of first_name, last_name, phones
\* and emails, blank or not, the uuid is listed under that value, and nothing else is
\* listed.  Violated: a blank value ("" or " ") is never indexed.
C1_AllValuesIndexed ==
    /\ IndexEntries(INDEX_CONTACT_FIRST_NAME)
         = TrieEntriesOf(LiveContacts, INDEX_CONTACT_FIRST_NAME, "first_name", TRUE)
    /\ IndexEntries(INDEX_CONTACT_LAST_NAME)
         = TrieEntriesOf(LiveContacts, INDEX_CONTACT_LAST_NAME, "last_name", TRUE)
    /\ IndexEntries(INDEX_CONTACT_PHONE)
         = HashEntriesOf(LiveContacts, INDEX_CONTACT_PHONE, "phones", TRUE)
    /\ IndexEntries(INDEX_CONTACT_EMAIL)
         = HashEntriesOf(LiveContacts, INDEX_CONTACT_EMAIL, "emails", TRUE)

\* C1 amended: after any sequence of add_contact / update_contact / remove_contact (and
\* rebuilds), for every live contact and every value of first_name, last_name, phones and
\* emails that is not blank, the uuid is listed in the bucket of the matching index under
\* that value (lowercased and trimmed for names, digested for phones and emails), and
\* the contact indexes list nothing else.
C1_ConsistencyInvariant ==
    /\ IndexEntries(INDEX_CONTACT_FIRST_NAME)
         = TrieEntriesOf(LiveContacts, INDEX_CONTACT_FIRST_NAME, "first_name", FALSE)
    /\ IndexEntries(INDEX_CONTACT_LAST_NAME)
         = TrieEntriesOf(LiveContacts, INDEX_CONTACT_LAST_NAME, "last_name", FALSE)
    /\ IndexEntries(INDEX_CONTACT_PHONE)
         = HashEntriesOf(LiveContacts, INDEX_CONTACT_PHONE, "phones", FALSE)
    /\ IndexEntries(INDEX_CONTACT_EMAIL)
         = HashEntriesOf(LiveContacts, INDEX_CONTACT_EMAIL, "emails", FALSE)

\* a contact was updated to first_name "jO" (only update_contact sets it), it holds
\* phones, another contact was removed, and the indexes are not empty
C1_Witness ==
    /\ removed # {}
    /\ \E c \in LiveContacts : c["first_name"] = <<"j", "O">> /\ c["phones"] # <<>>
    /\ IndexEntries(INDEX_CONTACT_FIRST_NAME) # {}
    /\ IndexEntries(INDEX_CONTACT_PHONE) # {}

\* ---------------------------------------------------------------- C2
\* the prefixes searched, the empty and the blank one included
AllPrefixQueries == PrefixQueries \cup {<<>>, <<" ">>}

\* every search of the contacts repository returns the same records on the indexes ix
\* and jx
SameContactSearches(hf, ix, jx) ==
    /\ \A q \in AllPrefixQueries :
           /\ SearchByFirstName(hf, ix, q) = SearchByFirstName(hf, jx, q)
           /\ SearchByLastName(hf, ix, q) = SearchByLastName(hf, jx, q)
    /\ \A q \in ExactQueries :
           /\ SearchByPhone(hf, ix, q) = SearchByPhone(hf, jx, q)
           /\ SearchByEmail(hf, ix, q) = SearchByEmail(hf, jx, q)

\* every search of the notes repository returns the same records on the indexes ix and jx
SameNoteSearches(hf, ix, jx) ==
    /\ \A q \in AllPrefixQueries : SearchByTitle(hf, ix, q) = SearchByTitle(hf, jx, q)
    /\ \A q \in DateQueries :
           SearchNotesByDate(hf, ix, q[1], q[2], q[3])
             = SearchNotesByDate(hf, jx, q[1], q[2], q[3])

\* C2: after any sequence of create / update / delete operations with no failure,
\* rebuild_indexes followed by any prefix, exact or date search returns the same set of
\* records as the same search without the rebuild, for contacts and for notes and for
\* every order in which the rebuild scans the records.
C2_RebuildThenSearchAgrees ==
    /\ \A all_entities \in ScanOrders(LiveContacts) :
           Then(RebuildContactsOp(index_files, all_entities).index,
                LAMBDA rebuilt : SameContactSearches(heap_files, rebuilt, index_files))
    /\ \A all_entities \in ScanOrders(LiveNotes) :
           Then(RebuildNotesOp(index_files, all_entities).index,
                LAMBDA rebuilt : SameNoteSearches(heap_files, rebuilt, index_files))

\* a contact and a note were created and updated, and prefix, exact and date searches
\* return them
C2_Witness ==
    /\ \E c \in LiveContacts : c["first_name"] = <<"j", "O">>
    /\ SearchByFirstName(heap_files, index_files, <<"j">>) # {}
    /\ SearchByPhone(heap_files, index_files, <<"1", "6", "1">>) # {}
    /\ \E n \in LiveNotes : n["title"] = <<"j", "o", "n", " ">> /\ n["created_at"] = T3
    /\ SearchNotesByDate(heap_files, index_files, 2024, 2, 0) # {}

\* ---------------------------------------------------------------- C3
\* every uuid returned by some search of either repository
SearchedUuids ==
    LET prefixes == AllPrefixQueries
        found ==
            UNION {SearchByFirstName(heap_files, index_files, q) : q \in prefixes}
            \cup UNION {SearchByLastName(heap_files, index_files, q) : q \in prefixes}
            \cup UNION {SearchByPhone(heap_files, index_files, q) : q \in ExactQueries}
            \cup UNION {SearchByEmail(heap_files, index_files, q) : q \in ExactQueries}
            \cup UNION {SearchByTitle(heap_files, index_files, q) : q \in prefixes}
            \cup UNION {SearchNotesByDate(heap_files, index_files, q[1], q[2], q[3]) :
                           q \in DateQueries}
    IN  {r["uuid"] : r \in found}

\* C3: once remove_contact(id) or delete_note(id) has returned True, in every later state
\* get_contact(id) and get_note(id) return None and no prefix, exact or date search
\* returns a record with that uuid, whatever operations follow.
C3_DeleteIsTerminal ==
    \A u \in removed :
        /\ HeapRead(heap_files, "contacts", u) = None
        /\ HeapRead(heap_files, "notes", u) = None
        /\ u \notin SearchedUuids

\* the first record was deleted, a record was created after it, and searches return
\* records
C3_Witness ==
    /\ "u1" \in removed
    /\ GetFilePath("contacts", "u2") \in DOMAIN heap_files
       \/ GetFilePath("notes", "u2") \in DOMAIN heap_files
    /\ SearchedUuids # {}

\* ---------------------------------------------------------------- C4
\* the record that the last call of the direct client named, as read now
LastRecord == HeapRead(heap_files, last.entity_type, last.uuid)

\* C4: for every live record and every update that succeeds, the stored uuid and
\* created_at are the same after the update as before it, whatever uuid or created_at
\* the caller's new fields contain, and updated_at after the update is later than
\* updated_at before it.  Violated: updated_at is the wall clock read by the update,
\* which can equal or precede the one stored.
C4_UpdatePreservesIdentity ==
    (last.op = "update" /\ last.ret = "True") =>
        /\ LastRecord["uuid"] = last.before["uuid"]
        /\ LastRecord["created_at"] = last.before["created_at"]
        /\ Later(LastRecord["updated_at"], last.before["updated_at"])

\* the part of C4 that the code keeps: uuid and created_at are those stored before, and
\* updated_at is the clock read by the update
C4_IdentityKept ==
    (last.op = "update" /\ last.ret = "True") =>
        /\ LastRecord["uuid"] = last.before["uuid"]
        /\ LastRecord["created_at"] = last.before["created_at"]
        /\ LastRecord["updated_at"] = last.t2

\* ---------------------------------------------------------------- C5
\* the keys that create assigns
SystemKeys == {"uuid", "created_at", "updated_at"}

\* C5: create followed by read of the returned uuid yields a document whose keys are the
\* input's keys and uuid, created_at, updated_at, in which every input field other than
\* these three has the input's value, and which is the document create returned, with
\* the generated uuid.
C5_CreateReadRoundTrip ==
    last.op = "create" =>
        LET doc == HeapRead(heap_files, last.entity_type, last.ret["uuid"])
        IN  /\ doc # None
            /\ DOMAIN doc = DOMAIN last.input \cup SystemKeys
            /\ \A k \in DOMAIN last.input \ SystemKeys : doc[k] = last.input[k]
            /\ doc["uuid"] = last.uuid
            /\ doc = last.ret

\* a document with a list, an empty list and no system key was created as the second
\* record and is read back
C5_Witness ==
    /\ last.op = "create"
    /\ last.input = [title |-> <<"J", "o">>, tags |-> <<>>]
    /\ last.ids # {}
    /\ LastRecord["tags"] = <<>>

\* ---------------------------------------------------------------- C6
\* C6 as stated: create assigns the uuid just generated, which no stored record has,
\* and stamps created_at and updated_at with the clock read by the call, for contacts
\* and notes alike, whatever the input holds under these keys.  Violated: create_note
\* keeps a created_at that the input holds.
C6_CreateStampsAll ==
    last.op = "create" =>
        /\ last.ret["uuid"] = last.uuid
        /\ last.ret["uuid"] \notin last.ids
        /\ last.ret["created_at"] = last.t1
        /\ last.ret["updated_at"] = last.t2
        /\ LastRecord = last.ret

\* C6 amended: create always assigns a freshly generated uuid and stamps updated_at with
\* the creation time, for contacts and for notes alike, regardless of any uuid or
\* timestamp in the caller's input; created_at is stamped with the creation time by
\* create_contact always, and by create_note unless the input holds a created_at, which
\* is then kept.
C6_CreateStamps ==
    last.op = "create" =>
        /\ last.ret["uuid"] = last.uuid
        /\ last.ret["uuid"] \notin last.ids
        /\ last.ret["created_at"]
             = (IF last.entity_type = "notes" /\ "created_at" \in DOMAIN last.input
                THEN last.input["created_at"]
                ELSE last.t1)
        /\ last.ret["updated_at"] = last.t2
        /\ LastRecord = last.ret

\* a note was created from an input that names the uuid of a stored note and a
\* created_at of its own, which the stored note has
C6_Witness ==
    /\ last.op = "create"
    /\ last.entity_type = "notes"
    /\ "uuid" \in DOMAIN last.input
    /\ last.input["uuid"] \in last.ids
    /\ last.input["created_at"] # last.t1
    /\ LastRecord["created_at"] = last.input["created_at"]

\* ---------------------------------------------------------------- C7
\* the live records that search(P) must return: those whose value of `field`, lowercased
\* and trimmed, starts with the lowercased and trimmed P
StartingWith(records, field, P) ==
    {r \in records : StartsWith(Normalize(r[field]), Normalize(P))}

Holding(records, field, V) == {r \in records : InList(V, r[field])}

C9_FailedWriteLeavesTarget ==
    (wr.pc \in {"cleanup", "raised", "returned"} /\ wr.failed = "replace") =>
        /\ wr.pc # "returned"
        /\ IF wr.before = None
           THEN wr.file_path \notin DOMAIN heap_files
           ELSE wr.file_path \in DOMAIN heap_files /\ heap_files[wr.file_path] = wr.before
        /\ Load(heap_files, wr.file_path) = wr.read_before
        /\ ListAll(heap_files, wr.entity_type) = wr.listed_before

\* an update of a stored record failed at the rename, the error was raised, and the
\* temporary file is still in the directory, holding the complete new version
C9_Witness ==
    /\ wr.pc = "raised"
    /\ wr.failed = "replace"
    /\ wr.before # None
    /\ wr.tmp_path \in DOMAIN heap_files
    /\ heap_files[wr.tmp_path] = wr.text
    /\ wr.text # wr.before

\* ---------------------------------------------------------------- C10
\* C10: a read of a record that runs while the record is created or updated returns
\* None only if the record was absent when the read began, and otherwise the complete
\* version in place when the read began or the complete version a concurrent write has
\* put in place; never a document cut short.
C10_ReadSeesWholeVersion ==
    rd.pc = "done" => rd.result \in rd.seen

\* a read that began on the previous version returned the new one, put in place by a
\* write that was under way when the read began
C10_Witness ==
    /\ rd.pc = "done"
    /\ Cardinality(rd.seen) = 2
    /\ rd.result # None
    /\ rd.result = JsonLoad(wr.text)
    /\ rd.result # wr.read_before
    /\ wr.read_before # None

\* ---------------------------------------------------------------- C11
\* C11: concurrent adds and removes of ids in one index bucket file lose no add and no
\* remove, also when the bucket path is used for the first time: once no index call is
\* in progress, every bucket file holds what its mutations give when they are applied
\* one at a time, in the order in which they were saved.
C11_NoMutationLost ==
    (\A t \in Threads : Idle(t)) => index_files = hist.serial

\* ---------------------------------------------------------------- C12
\* C12: every caller of _get_lock for one path is given the same Lock object, and the
\* object registered for a path is the one its callers were given (it is never
\* replaced or removed).
C12_OneLockPerPath ==
    /\ \A g, h \in hist.granted : g[1] = h[1] => g[2] = h[2]
    /\ \A g \in hist.granted : g[1] \in DOMAIN locks /\ locks[g[1]] = g[2]

\* ---------------------------------------------------------------- C13
\* C13: when two threads run update_contact, or update_contact and remove_contact, on
\* the same contact at the same time, with no I/O failure, then once the calls have
\* completed the indexes hold exactly the entries of the stored contacts.
C13_ConcurrentCallsConsistent ==
    (\A t \in Threads : Idle(t)) => C1_ConsistencyInvariant

\* ---------------------------------------------------------------- C14
\* the ids a caller can name: those drawn so far or later, and one never drawn
CallerIds == Uuids \cup {"u0"}

\* the result of a call that found no record: nothing written, False returned
NotFound == [heap |-> heap_files, index |-> index_files, ret |-> "False"]

\* C14: update_contact, remove_contact, update_note and delete_note on an id that has
\* no live record return False and change no heap record and no index bucket.
C14_NotFoundChangesNothing ==
    \A u \in CallerIds :
        /\ Falsy(HeapRead(heap_files, "contacts", u)) =>
               /\ \A fields \in ContactUpdates :
                      UpdateContactOp(heap_files, index_files, u, fields, <<>>, T1, T1)
                        = NotFound
               /\ \A unlink_fails \in BOOLEAN :
                      RemoveContactOp(heap_files, index_files, u, unlink_fails) = NotFound
        /\ Falsy(HeapRead(heap_files, "notes", u)) =>
               /\ \A fields \in NoteUpdates :
                      UpdateNoteOp(heap_files, index_files, u, fields, <<>>, T1, T1)
                        = NotFound
               /\ \A unlink_fails \in BOOLEAN :
                      DeleteNoteOp(heap_files, index_files, u, unlink_fails) = NotFound

\* an id has no live contact while the last-name index still lists it, and a note is
\* stored
C14_Witness ==
    /\ \E e \in IndexEntries(INDEX_CONTACT_LAST_NAME) :
           Falsy(HeapRead(heap_files, "contacts", e[3]))
    /\ LiveNotes # {}

\* ---------------------------------------------------------------- C15
\* C15: when a filesystem write, rename or delete fails during a heap operation, the
\* failure leaves the operation as an error; it is never swallowed and turned into a
\* normal return value such as not-found.
C15_IoFailurePropagated ==
    (last.op \in {"create", "update", "delete"} /\ last.failed) => last.ret = "OSError"

\* ---------------------------------------------------------------- C16
\* C16: a record file that exists but does not parse is treated as absent by every
\* heap operation: read returns absent, update and delete return a normal result, and
\* no heap operation raises because of the damaged file.
C16_CorruptTreatedAsAbsent ==
    (last.op \in {"read", "update", "delete"} /\ last.existed /\ ~last.parsed /\ ~last.failed)
        => /\ last.ret \in {"None", "True", "False"}
           /\ last.op = "read" => last.ret = "None"

\* ---------------------------------------------------------------- C17
\* every record that some search of the contacts repository returns
ContactsReturned ==
    UNION {SearchByFirstName(heap_files, index_files, q) : q \in AllPrefixQueries}
    \cup UNION {SearchByLastName(heap_files, index_files, q) : q \in AllPrefixQueries}
    \cup UNION {SearchByPhone(heap_files, index_files, q) : q \in ExactQueries}
    \cup UNION {SearchByEmail(heap_files, index_files, q) : q \in ExactQueries}

\* every record that some search of the notes repository returns
NotesReturned ==
    UNION {SearchByTitle(heap_files, index_files, q) : q \in AllPrefixQueries}
    \cup UNION {SearchNotesByDate(heap_files, index_files, q[1], q[2], q[3]) :
                   q \in DateQueries}

\* C17: in every reachable state, also when the indexes have drifted from the heap,
\* every record returned by a search of either repository is a record the heap
\* currently returns for its uuid; a listed id whose record is missing is dropped.
C17_SearchReturnsReadable ==
    /\ \A r \in ContactsReturned :
           r \in LiveContacts /\ HeapRead(heap_files, "contacts", r["uuid"]) = r
    /\ \A r \in NotesReturned :
           r \in LiveNotes /\ HeapRead(heap_files, "notes", r["uuid"]) = r

\* the last-name index lists an id whose record is gone, in a bucket whose search also
\* returns a stored contact
C17_Witness ==
    /\ \E e \in IndexEntries(INDEX_CONTACT_LAST_NAME) :
           /\ Falsy(HeapRead(heap_files, "contacts", e[3]))
           /\ StartsWith(e[2], <<"j">>)
    /\ SearchByLastName(heap_files, index_files, <<"j">>) # {}

\* ---------------------------------------------------------------- C18
\* the bucket files of ix that belong to the indexes index_names
IndexesOf(ix, index_names) == [p \in {q \in DOMAIN ix : q[1] \in index_names} |-> ix[p]]

\* the entries <<bucket file, key, uuid>> that the index index_name of ix holds
EntriesIn(ix, index_name) ==
    UNION {UNION {{<<p, k, u>> : u \in ListElems(ix[p][k])} : k \in DOMAIN ix[p]} :
            p \in {q \in DOMAIN ix : q[1] = index_name}}

\* ix holds exactly the entries of the indexed fields of the live contacts (of all
\* their values, or of those that are not blank)
ContactEntriesExact(ix, with_blank) ==
    /\ EntriesIn(ix, INDEX_CONTACT_FIRST_NAME)
         = TrieEntriesOf(LiveContacts, INDEX_CONTACT_FIRST_NAME, "first_name", with_blank)
    /\ EntriesIn(ix, INDEX_CONTACT_LAST_NAME)
         = TrieEntriesOf(LiveContacts, INDEX_CONTACT_LAST_NAME, "last_name", with_blank)
    /\ EntriesIn(ix, INDEX_CONTACT_PHONE)
         = HashEntriesOf(LiveContacts, INDEX_CONTACT_PHONE, "phones", with_blank)
    /\ EntriesIn(ix, INDEX_CONTACT_EMAIL)
         = HashEntriesOf(LiveContacts, INDEX_CONTACT_EMAIL, "emails", with_blank)

\* the same for the live notes: title, creation date, and no tag entry
NoteEntriesExact(ix, with_blank) ==
    /\ EntriesIn(ix, INDEX_NOTE_TITLE)
         = TrieEntriesOf(LiveNotes, INDEX_NOTE_TITLE, "title", with_blank)
    /\ EntriesIn(ix, INDEX_NOTE_CREATION_DATE)
         = {<<GetDatePath(INDEX_NOTE_CREATION_DATE, r["created_at"]), "uuids", r["uuid"]>> :
               r \in LiveNotes}
    /\ EntriesIn(ix, INDEX_NOTE_TAG) = {}

\* Rebuilding from the current bucket files gives, for the rebuilt indexes, the same
\* files as rebuilding from no bucket files at all; a second rebuild changes nothing;
\* the files of the other repository are not touched.
RebuiltFromHeapOnly(rebuilt, fresh, again, index_names) ==
    /\ IndexesOf(rebuilt, index_names) = fresh
    /\ again = rebuilt
    /\ LET others == {p[1] : p \in DOMAIN index_files \cup DOMAIN rebuilt} \ index_names
       IN  IndexesOf(rebuilt, others) = IndexesOf(index_files, others)

\* C18 as stated: after rebuild_indexes the indexes are a function of the heap only
\* (the same from any prior index state, the same when rebuilt twice) and hold exactly
\* the entries for the indexed fields of the live records, blank values included.
\* Violated: a blank value is not indexed by the rebuild either.
C18_RebuildExactAllValues ==
    /\ \A all_entities \in ScanOrders(LiveContacts) :
           Then(RebuildContactsOp(index_files, all_entities).index, LAMBDA rebuilt :
                /\ RebuiltFromHeapOnly(rebuilt, RebuildContactsOp(<<>>, all_entities).index,
                                       RebuildContactsOp(rebuilt, all_entities).index,
                                       CONTACT_INDEXES)
                /\ ContactEntriesExact(rebuilt, TRUE))
    /\ \A all_entities \in ScanOrders(LiveNotes) :
           Then(RebuildNotesOp(index_files, all_entities).index, LAMBDA rebuilt :
                /\ RebuiltFromHeapOnly(rebuilt, RebuildNotesOp(<<>>, all_entities).index,
                                       RebuildNotesOp(rebuilt, all_entities).index,
                                       NOTE_INDEXES)
                /\ NoteEntriesExact(rebuilt, TRUE))

\* C18 (amended): after rebuild_indexes the indexes are a function of the heap only:
\* from any prior index state, drifted or stale, and the same scan of the heap the
\* rebuilt bucket files are the same as from an empty index; for every scan order they
\* hold exactly the entries for the non-blank indexed values of the live records; a
\* second rebuild gives the same files as the first.
C18_RebuildFunctionOfHeap ==
    /\ \A all_entities \in ScanOrders(LiveContacts) :
           Then(RebuildContactsOp(index_files, all_entities).index, LAMBDA rebuilt :
                /\ RebuiltFromHeapOnly(rebuilt, RebuildContactsOp(<<>>, all_entities).index,
                                       RebuildContactsOp(rebuilt, all_entities).index,
                                       CONTACT_INDEXES)
                /\ ContactEntriesExact(rebuilt, FALSE))
    /\ \A all_entities \in ScanOrders(LiveNotes) :
           Then(RebuildNotesOp(index_files, all_entities).index, LAMBDA rebuilt :
                /\ RebuiltFromHeapOnly(rebuilt, RebuildNotesOp(<<>>, all_entities).index,
                                       RebuildNotesOp(rebuilt, all_entities).index,
                                       NOTE_INDEXES)
                /\ NoteEntriesExact(rebuilt, FALSE))

\* the indexes have drifted both ways: the last-name index lists an id without a
\* record, a stored contact with a last name is listed nowhere, and a note is stored
C18_Witness ==
    /\ \E e \in IndexEntries(INDEX_CONTACT_LAST_NAME) :
           Falsy(HeapRead(heap_files, "contacts", e[3]))
    /\ \E c \in LiveContacts :
           /\ ~IsBlank(c["last_name"])
           /\ \A e \in IndexEntries(INDEX_CONTACT_LAST_NAME) : e[3] # c["uuid"]
    /\ ~ContactEntriesExact(index_files, FALSE)

\* ---------------------------------------------------------------- C19
\* the contact c was reindexed into ix: each of its non-blank indexed values is listed
ContactReindexed(c, ix) ==
    /\ TrieEntriesOf({c}, INDEX_CONTACT_FIRST_NAME, "first_name", FALSE)
         \subseteq EntriesIn(ix, INDEX_CONTACT_FIRST_NAME)
    /\ TrieEntriesOf({c}, INDEX_CONTACT_LAST_NAME, "last_name", FALSE)
         \subseteq EntriesIn(ix, INDEX_CONTACT_LAST_NAME)
    /\ HashEntriesOf({c}, INDEX_CONTACT_PHONE, "phones", FALSE)
         \subseteq EntriesIn(ix, INDEX_CONTACT_PHONE)
    /\ HashEntriesOf({c}, INDEX_CONTACT_EMAIL, "emails", FALSE)
         \subseteq EntriesIn(ix, INDEX_CONTACT_EMAIL)

\* the note n was reindexed into ix
NoteReindexed(n, ix) ==
    /\ TrieEntriesOf({n}, INDEX_NOTE_TITLE, "title", FALSE)
         \subseteq EntriesIn(ix, INDEX_NOTE_TITLE)
    /\ <<GetDatePath(INDEX_NOTE_CREATION_DATE, n["created_at"]), "uuids", n["uuid"]>>
         \in EntriesIn(ix, INDEX_NOTE_CREATION_DATE)

FirstNameHits(prefix) == {r["uuid"] : r \in SearchByFirstName(heap_files, index_files, prefix)}

\* C20: after contact A is created with the name "John", the prefix search "Jo" returns
\* {A}; after A is renamed to "Jonathan", "Jo" still returns {A} and a lookup of "John"
\* returns nothing; after A is deleted, rebuild_indexes returns 0 and "Jo" returns
\* nothing.
C20_JohnScenario ==
    /\ last.op = "created" => FirstNameHits(<<"J", "o">>) = {last.A}
    /\ last.op = "updated" =>
           /\ FirstNameHits(<<"J", "o">>) = {last.A}
           /\ FirstNameHits(John) = {}
           /\ \A p \in DOMAIN index_files : Normalize(John) \notin DOMAIN index_files[p]
    /\ last.op = "deleted" => FirstNameHits(<<"J", "o">>) = {}
    /\ last.op = "rebuilt" => last.ret = 0 /\ FirstNameHits(<<"J", "o">>) = {}

\* the run has come to its end: A was created, renamed, removed and the rebuild returned
C20_Witness ==
    /\ last.op = "rebuilt"
    /\ uuid_count = 1
    /\ HeapRead(heap_files, "contacts", last.A) = None

\* ---------------------------------------------------------------- C21
\* C21 as stated: after any add_note / update_note / delete_note calls with no failure,
\* a note id is listed in the creation-date index under day D iff the note is live and
\* its stored created_at falls on D, and in the title index under key K iff the live
\* note's normalized title is K.  Violated: a note whose title is empty or blank has
\* the normalized title "" and is listed under no key.
C21_NoteIndexesAllTitles == NoteEntriesExact(index_files, TRUE)

\* C21 (amended): the same, the title part for the notes whose title is not empty and
\* not blank; a note with an empty or blank title is listed under no title key.
C21_NoteIndexesExact == NoteEntriesExact(index_files, FALSE)

\* a note with a blank title is stored next to a note whose title was changed by
\* update_note, and both indexes hold entries
C21_Witness ==
    /\ \E n \in LiveNotes : IsBlank(n["title"])
    /\ \E n \in LiveNotes : ~IsBlank(n["title"]) /\ n["updated_at"] = T2
    /\ IndexEntries(INDEX_NOTE_TITLE) # {}
    /\ IndexEntries(INDEX_NOTE_CREATION_DATE) # {}

\* ---------------------------------------------------------------- C22
\* the fields of `after` that differ from `before`, were added or were dropped
Differing(before, after) ==
    {k \in DOMAIN before \cup DOMAIN after :
        k \notin DOMAIN before \/ k \notin DOMAIN after \/ after[k] # before[k]}

\* C22: when update_contact or update_note returns True, the fields of the stored record
\* that differ from the record before the call are among the supplied ones (named
\* arguments that are not None, extra fields) and updated_at.
C22_UpdateKeepsUnsupplied ==
    \A u \in Uuids, extra \in UpdExtras :
        /\ \A fields \in UpdContactUpdates :
               LET r == UpdateContactOp(heap_files, index_files, u, fields, extra, T4, T4)
               IN  r.ret = "True" =>
                       Differing(HeapRead(heap_files, "contacts", u),
                                 HeapRead(r.heap, "contacts", u))
                         \subseteq DOMAIN fields \cup DOMAIN extra \cup {"updated_at"}
        /\ \A fields \in UpdNoteUpdates :
               LET r == UpdateNoteOp(heap_files, index_files, u, fields, extra, T4, T4)
               IN  r.ret = "True" =>
                       Differing(HeapRead(heap_files, "notes", u),
                                 HeapRead(r.heap, "notes", u))
                         \subseteq DOMAIN fields \cup DOMAIN extra \cup {"updated_at"}

\* a contact and a note are stored whose update changed a named field and restamped them
C22_Witness ==
    /\ \E c \in LiveContacts :
           c["first_name"] = <<"j", "O">> /\ c["updated_at"] = T2 /\ c["created_at"] = T1
    /\ \E n \in LiveNotes :
           n["title"] = <<"j", "o", "n", " ">> /\ n["updated_at"] = T2 /\ n["created_at"] = T1

\* ---------------------------------------------------------------- C27
\* C27: when the heap update inside update_contact or update_note fails or returns
\* not-found, the call has added no index entry: every entry the indexes hold after the
\* call was there before it.
C27_NoEntryAddedUnlessUpdated ==
    \A u \in Uuids, extra \in UpdExtras, outcome \in HeapOutcomes :
        /\ \A fields \in UpdContactUpdates :
               LET r == UpdateContactWith(heap_files, index_files, u, fields, extra,
                                          T2, T2, outcome)
               IN  r.ret # "True" =>
                       \A index_name \in CONTACT_INDEXES :
                           EntriesIn(r.index, index_name)
                             \subseteq EntriesIn(index_files, index_name)
        /\ \A fields \in UpdNoteUpdates :
               LET r == UpdateNoteWith(heap_files, index_files, u, fields, extra,
                                       T2, T2, outcome)
               IN  r.ret # "True" =>
                       \A index_name \in NOTE_INDEXES :
                           EntriesIn(r.index, index_name)
                             \subseteq EntriesIn(index_files, index_name)

\* ---------------------------------------------------------------- C28
\* update_contact of a live contact whose heap rewrite fails: the error leaves the
\* call, the heap is as before, no index lists the contact, and after rebuild_indexes
\* (whatever the order of the directory scan) the indexes hold exactly the entries of
\* the live contacts (of all their values, or of those that are not blank)
FailedUpdateThenRebuild(with_blank) ==
    \A u \in Uuids, fields \in UpdContactUpdates, extra \in UpdExtras :
        LET r == UpdateContactWith(heap_files, index_files, u, fields, extra, T2, T2,
                                   "OSError")
        IN  ~Falsy(HeapRead(heap_files, "contacts", u)) =>
                /\ r.ret = "OSError"
                /\ r.heap = heap_files
                /\ \A index_name \in CONTACT_INDEXES :
                       \A e \in EntriesIn(r.index, index_name) : e[3] # u
                /\ \A all_entities \in ScanOrders(ListAll(r.heap, "contacts")) :
                       ContactEntriesExact(RebuildContactsOp(r.index, all_entities).index,
                                           with_blank)

\* C28 as stated: if the heap rewrite fails during update_contact after the old index
\* entries were removed, the error propagates, the heap record keeps its content, the
\* old entries are not restored, and after rebuild_indexes the consistency invariant
\* holds again: every live contact is listed under every current value of its indexed
\* fields.  Violated: a blank phone is not listed after the rebuild.
C28_RebuildRestoresAllValues == FailedUpdateThenRebuild(TRUE)

\* C28 (amended): the same, with the indexes after rebuild_indexes listing every live
\* contact under each value of its indexed fields that is not empty or blank, and
\* nothing else.
C28_FailedUpdateThenRebuild == FailedUpdateThenRebuild(FALSE)

\* an update has failed: a stored contact with a first name is listed by no index
C28_Witness ==
    \E c \in LiveContacts :
        /\ ~IsBlank(c["first_name"])
        /\ \A index_name \in CONTACT_INDEXES :
               \A e \in EntriesIn(index_files, index_name) : e[3] # c["uuid"]

\* ---------------------------------------------------------------- C29
\* the trie indexes of the two repositories
TrieIndexes == {INDEX_CONTACT_FIRST_NAME, INDEX_CONTACT_LAST_NAME, INDEX_NOTE_TITLE}

\* the bucket files of an index
BucketsOf(ix, index_type) == {p \in DOMAIN ix : p[1] = index_type}

\* the keys of all bucket files of an index
KeysOf(ix, index_type) == UNION {DOMAIN ix[p] : p \in BucketsOf(ix, index_type)}

\* the bucket files of an index read as one flat map from key to uuids
FlatMap(ix, index_type) ==
    [k \in KeysOf(ix, index_type) |->
        ix[CHOOSE p \in BucketsOf(ix, index_type) : k \in DOMAIN ix[p]][k]]

FullDateQueries ==
    {q \in DateQueries : q[3] # 0 => q[2] # 0}
        \cup {<<2023, 0, 0>>, <<2024, 1, 1>>, <<2024, 2, 5>>, <<2025, 1, 5>>, <<2025, 2, 0>>}

\* the uuids added by add_note and not removed by delete_note whose date is in the
\* year, month (if given) and day (if given) of q
AddedOn(q) ==
    {n["uuid"] : n \in {m \in LiveNotes :
                           /\ m["created_at"][1] = q[1]
                           /\ q[2] # 0 => m["created_at"][2] = q[2]
                           /\ q[3] # 0 => m["created_at"][3] = q[3]}}

\* C30: search_by_date(index, year, month, day) returns exactly the uuids added and not
\* removed under that day, with the day omitted those of the month, with month and day
\* omitted those of the year; uuids of other years, months and days are not returned.
C30_DateSearchExact ==
    \A q \in FullDateQueries :
        SearchByDate(index_files, INDEX_NOTE_CREATION_DATE, q[1], q[2], q[3]) = AddedOn(q)

\* two notes of the same year and different months are stored: the search of the year
\* returns both and the search of a day one of them
C30_Witness ==
    /\ \E n, m \in LiveNotes : n["created_at"] = T1 /\ m["created_at"] = T3
    /\ SearchByDate(index_files, INDEX_NOTE_CREATION_DATE, 2024, 0, 0) = {"u1", "u2"}
    /\ SearchByDate(index_files, INDEX_NOTE_CREATION_DATE, 2024, 1, 5)
         \in {{"u1"}, {"u2"}}

\* ---------------------------------------------------------------- C23
\* C23: every key of the AddressBook is the first name of the record stored under it,
\* and add_record of a record whose name is already a key raises
\* RecordAlreadyExistsError and leaves the book as it was.
C23_NamesAreKeys ==
    /\ \A k \in DOMAIN book : book[k].first_name = k
    /\ (last.op = "add_record" /\ last.arg \in DOMAIN last.before) =>
           /\ last.ret = "RecordAlreadyExistsError"
           /\ book = last.before

\* add_record was called with the name of a stored record that has a phone
C23_Witness ==
    /\ last.op = "add_record"
    /\ last.arg \in DOMAIN last.before
    /\ last.before[last.arg].phones # <<>>

\* ---------------------------------------------------------------- C24
\* C24: add_phone with a phone string that add_phone has added to the record before
\* raises PhoneAlreadyExistsError and leaves the list of phones as it was.
C24_DuplicatePhoneRejected ==
    \A name \in DOMAIN book, phone \in PhoneInputs :
        LET first == AddPhoneOp(book[name].phones, phone)
            second == AddPhoneOp(first.phones, phone)
        IN  first.ret = "None" =>
                /\ second.ret = "PhoneAlreadyExistsError"
                /\ second.phones = first.phones

\* ---------------------------------------------------------------- C26
\* the day of the week by Zeller's congruence: 0 Saturday, 1 Sunday, 2 Monday, ...
Zeller(date) ==
    LET m == IF date.month < 3 THEN date.month + 12 ELSE date.month
        y == IF date.month < 3 THEN date.year - 1 ELSE date.year
        K == y % 100
        J == y \div 100
    IN  (date.day + ((13 * (m + 1)) \div 5) + K + (K \div 4) + (J \div 4) + 5 * J) % 7

\* a is an earlier day than b
Before(a, b) ==
    \/ a.year < b.year
    \/ a.year = b.year /\ a.month < b.month
    \/ a.year = b.year /\ a.month = b.month /\ a.day < b.day

\* the number of days from a to b, counted on the calendar
DaysBetween(a, b) == Cardinality({d \in Calendar : ~Before(d, a) /\ Before(d, b)})

\* the first day, today or later, with the month and day of the birthday
Upcoming(birthday, today) ==
    LET days == {d \in Calendar : /\ d.month = birthday.month
                                  /\ d.day = birthday.day
                                  /\ ~Before(d, today)}
    IN  CHOOSE u \in days : \A v \in days : ~Before(v, u)

\* C26: every congratulation date returned by get_upcoming_birthdays is a weekday (the
\* birthday itself, or the Monday after a birthday on Saturday or Sunday), and a record
\* is returned only if its upcoming birthday is in [today, today + warn_in_days].
C26_CongratulationOnWeekday ==
    (last.op = "get_upcoming_birthdays" /\ last.ret = "list") =>
        \A pair \in last.pairs :
            LET upcoming == Upcoming(book[pair[1]].birthday, last.today)
                congratulation == pair[2]
            IN  /\ Zeller(congratulation) \notin {0, 1}
                /\ DaysBetween(last.today, upcoming) <= last.warn_in_days
                /\ Zeller(upcoming) \notin {0, 1} => congratulation = upcoming
                /\ Zeller(upcoming) \in {0, 1} =>
                       /\ Zeller(congratulation) = 2
                       /\ Before(upcoming, congratulation)
                       /\ DaysBetween(upcoming, congratulation) <= 2

\* a birthday on a Saturday of the next year was returned with the Monday after it,
\* next to a birthday on a weekday
C26_Witness ==
    /\ last.op = "get_upcoming_birthdays"
    /\ last.ret = "list"
    /\ \E pair \in last.pairs :
           /\ pair[2].year = last.today.year + 1
           /\ Zeller(Upcoming(book[pair[1]].birthday, last.today)) = 0
           /\ pair[2] # Upcoming(book[pair[1]].birthday, last.today)
    /\ \E pair \in last.pairs : pair[2] = Upcoming(book[pair[1]].birthday, last.today)

\* ---------------------------------------------------------------- C25
\* the place in text where the i-th word of list begins, less one, when the words are
\* joined with one space between them
RECURSIVE OffsetOf(_, _)
OffsetOf(list, i) == IF i = 1 THEN 0 ELSE OffsetOf(list, i - 1) + Len(list[i - 1]) + 1

\* text is the words of list with exactly one space between neighbours
JoinedBySingleSpaces(text, list) ==
    /\ Len(text) = OffsetOf(list, Len(list) + 1) - 1
    /\ \A i \in 1..Len(list) :
           /\ SubSeq(text, OffsetOf(list, i) + 1, OffsetOf(list, i) + Len(list[i])) = list[i]
           /\ i > 1 => text[OffsetOf(list, i)] = " "

\* C25: the arguments handed out so far followed by those still in the parser are the
\* original list (in order, each once); get_next returns the first argument not yet
\* consumed; has_next is true exactly while arguments remain; get_next and
\* get_all_remaining_as_str raise IndexError exactly when none remain, and change
\* nothing then; get_all_remaining_as_str returns the remaining arguments joined by
\* single spaces and leaves none.
C25_ArgsConsumedInOrder ==
    last.op \in {"ArgsParser", "get_next", "get_all_remaining_as_str", "has_next"} =>
        /\ last.consumed \o args = last.original
        /\ last.op = "has_next" =>
               /\ last.value = (Len(last.consumed) < Len(last.original))
               /\ args = last.before
        /\ last.op \in {"get_next", "get_all_remaining_as_str"} =>
               /\ (last.raised = "IndexError") = (last.before = <<>>)
               /\ last.raised = "IndexError" => args = last.before
        /\ (last.op = "get_next" /\ last.raised = "no") =>
               /\ last.value = last.original[Len(last.consumed)]
               /\ Len(args) = Len(last.before) - 1
        /\ (last.op = "get_all_remaining_as_str" /\ last.raised = "no") =>
               /\ JoinedBySingleSpaces(last.value, last.before)
               /\ args = <<>>

\* of three arguments the first was taken by get_next and the other two by
\* get_all_remaining_as_str
C25_Witness ==
    /\ last.op = "get_all_remaining_as_str"
    /\ last.raised = "no"
    /\ Len(last.original) = 3
    /\ Len(last.before) = 2
    /\ last.original[1] # last.original[3]

\* ---------------------------------------------------------------- C31
\* the hash indexes and the list field each of them indexes
HashIndexes == {<<INDEX_CONTACT_PHONE, "phones">>, <<INDEX_CONTACT_EMAIL, "emails">>}

\* C31: every key of a bucket file of a hash index is the full digest of an indexed
\* value, filed under the first four hex characters of that digest, never the value
\* itself; and search_by_exact_match(V) returns only uuids that were added under V (the
\* contacts holding V), also when another value W has its digest in the same bucket file.
C31_ExactMatchByFullDigest ==
    \A h \in HashIndexes :
        /\ \A p \in {q \in DOMAIN index_files : q[1] = h[1]} :
               \A k \in DOMAIN index_files[p] :
                   /\ k \notin ExactQueries
                   /\ \E V \in ExactQueries : k = Sha1Hex(V)
                   /\ <<k[1], k[2]>> = <<p[2], p[3]>>
        /\ \A V \in {x \in ExactQueries : ~IsBlank(x)} :
               ListElems(SearchByExactMatch(index_files, h[1], V))
                 \subseteq {c["uuid"] : c \in Holding(LiveContacts, h[2], V)}

\* one bucket file of the phone index holds the digests of "161" and "244" with
\* different uuid lists, and the search for "244" returns one uuid only
C31_Witness ==
    /\ \E p \in DOMAIN index_files :
           /\ p[1] = INDEX_CONTACT_PHONE
           /\ {Sha1Hex(<<"1", "6", "1">>), Sha1Hex(<<"2", "4", "4">>)}
                \subseteq DOMAIN index_files[p]
           /\ index_files[p][Sha1Hex(<<"1", "6", "1">>)]
                # index_files[p][Sha1Hex(<<"2", "4", "4">>)]
    /\ Len(SearchByExactMatch(index_files, INDEX_CONTACT_PHONE, <<"2", "4", "4">>)) = 1
    /\ Len(SearchByExactMatch(index_files, INDEX_CONTACT_PHONE, <<"1", "6", "1">>)) = 2

\* ---------------------------------------------------------------- C32
\* C32: after any sequence of add and remove calls on a prefix index and a hash index
\* that started empty, no bucket file maps a key to an empty list of uuids, and no list
\* of uuids holds the same uuid twice.
C32_NoEmptyListNoDuplicate ==
    \A p \in DOMAIN index_files :
        \A k \in DOMAIN index_files[p] :
            LET list == index_files[p][k]
            IN  /\ list # <<>>
                /\ \A i, j \in 1..Len(list) : list[i] = list[j] => i = j

\* a bucket file of the prefix index lost its last key (the file is left holding {}),
\* while a key of the hash index lists two uuids
C32_Witness ==
    /\ \E p \in DOMAIN index_files : p[1] = INDEX_NOTE_TITLE /\ index_files[p] = EmptyDict
    /\ \E p \in DOMAIN index_files :
           /\ p[1] = INDEX_CONTACT_PHONE
           /\ \E k \in DOMAIN index_files[p] : Len(index_files[p][k]) = 2

\* ---------------------------------------------------------------- C33
ALL_INDEXES == CONTACT_INDEXES \cup NOTE_INDEXES

\* the lists of names given to rebuild_index_set: none, one index, the indexes of one
\* repository, all
RebuiltSets ==
    {{}, CONTACT_INDEXES, NOTE_INDEXES, ALL_INDEXES} \cup {{n} : n \in ALL_INDEXES}

\* the bucket files of the indexes `names`, with their contents
FilesOf(ix, names) == [p \in {q \in DOMAIN ix : q[1] \in names} |-> ix[p]]

\* C33: after rebuild_index_set(names) every prefix, exact and date search on a named
\* index returns nothing, and the bucket files of every index that is not named are
\* the same files with the same content; a rebuild of the notes repository leaves the
\* files of the contact indexes as they were, and a rebuild of the contacts repository
\* those of the note indexes.  (The heap is not an argument of either: see the frames
\* of RebuildContacts and RebuildNotes.)
C33_RebuildClearsOnlyNamed ==
    /\ \A names \in RebuiltSets :
           LET ix == RebuildIndexSet(index_files, names)
           IN  /\ \A n \in names :
                      /\ \A q \in AllPrefixQueries : DOMAIN SearchByPrefix(ix, n, q) = {}
                      /\ \A v \in ExactQueries : SearchByExactMatch(ix, n, v) = <<>>
                      /\ \A d \in DateQueries : SearchByDate(ix, n, d[1], d[2], d[3]) = {}
               /\ FilesOf(ix, ALL_INDEXES \ names) = FilesOf(index_files, ALL_INDEXES \ names)
    /\ \A all_entities \in ScanOrders(LiveNotes) :
           FilesOf(RebuildNotesOp(index_files, all_entities).index, CONTACT_INDEXES)
             = FilesOf(index_files, CONTACT_INDEXES)
    /\ \A all_entities \in ScanOrders(LiveContacts) :
           FilesOf(RebuildContactsOp(index_files, all_entities).index, NOTE_INDEXES)
             = FilesOf(index_files, NOTE_INDEXES)

\* a contact and a note are stored, with entries in a contact index and in a note
\* index: a rebuild of either repository has entries to clear and entries to keep
C33_Witness ==
    /\ LiveContacts # {} /\ LiveNotes # {}
    /\ IndexEntries(INDEX_CONTACT_FIRST_NAME) # {}
    /\ IndexEntries(INDEX_NOTE_TITLE) # {}
    /\ IndexEntries(INDEX_NOTE_CREATION_DATE) # {}
    /\ RebuildIndexSet(index_files, NOTE_INDEXES) # index_files

\* ---------------------------------------------------------------- C34
\* C34: a prefix search with a one-character prefix and a date search without a day,
\* run while another thread is inside an add or remove on a bucket of the scanned
\* directory, return what the committed bucket files hold: nothing comes from the
\* temporary file of the write in progress.
C34_ReadersSeeCommittedOnly ==
    /\ \A prefix \in ScanPrefixes :
           ScanByPrefix(index_files, threads, INDEX_NOTE_TITLE, prefix)
             = {SearchByPrefix(index_files, INDEX_NOTE_TITLE, prefix)}
    /\ \A q \in ScanDays :
           ScanByDate(index_files, threads, INDEX_NOTE_CREATION_DATE, q[1], q[2], q[3])
             = SearchByDate(index_files, INDEX_NOTE_CREATION_DATE, q[1], q[2], q[3])

\* ---------------------------------------------------------------- C35
\* the <<bucket file, key>> pairs under which the indexes ix list the uuid
EntriesOfId(ix, uuid) ==
    UNION {{<<p, k>> : k \in {x \in DOMAIN ix[p] : uuid \in ListElems(ix[p][x])}} :
             p \in DOMAIN ix}

\* C35: whenever remove_contact or delete_note returns False, the heap file of the
\* record and the index entries of its uuid are what they were before the call.
C35_FalseLeavesAllInPlace ==
    \A u \in Uuids, unlink_fails \in BOOLEAN :
        /\ LET r == RemoveContactOp(heap_files, index_files, u, unlink_fails)
           IN  r.ret = "False" =>
                   /\ r.heap = heap_files
                   /\ EntriesOfId(r.index, u) = EntriesOfId(index_files, u)
        /\ LET r == DeleteNoteOp(heap_files, index_files, u, unlink_fails)
           IN  r.ret = "False" =>
                   /\ r.heap = heap_files
                   /\ EntriesOfId(r.index, u) = EntriesOfId(index_files, u)

\* ---------------------------------------------------------------- C36
\* the Lock objects a thread holds
HeldBy(t) == {l \in 1..Len(lock_objs) : lock_objs[l] = t}

\* the statements inside `with lock:`
InSection(t) == threads[t].pc \in {"load", "save", "dump", "replace", "release"}

\* C36 as stated: under weak fairness every add/remove a thread has started
\* eventually returns or raises.
C36_EveryCallReturns ==
    \A t \in Threads : (~Idle(t)) ~> Idle(t)

\* a thread holds a lock exactly while it is inside its `with lock:`, and only the
\* one its call was given; a thread that waits has its lock free or held by a thread
\* inside the section (no thread waits for a thread that waits)
LocksWellHeld ==
    \A t \in Threads :
        /\ HeldBy(t) = (IF InSection(t) THEN {threads[t].lock} ELSE {})
        /\ threads[t].pc = "acquire" =>
               \/ lock_objs[threads[t].lock] = "free"
               \/ InSection(lock_objs[threads[t].lock])

\* C36 amended: a thread holds at most one bucket lock, and only inside the
\* load-mutate-write section; under weak fairness every call reaches the acquisition
\* of its lock, every call that has acquired its lock returns or raises with the lock
\* released, also when the write fails, and the lock a call waits for is free again
\* and again; a waiting call returns when the acquisition of locks is strongly fair.
C36_HoldersReturnWaitersNeedStrongFairness ==
    /\ []LocksWellHeld
    /\ \A t \in Threads :
           /\ (threads[t].pc \in {"get_lock", "new_lock", "return_lock"})
                ~> (threads[t].pc = "acquire")
           /\ InSection(t) ~> (Idle(t) /\ HeldBy(t) = {})
           /\ (threads[t].pc = "acquire")
                ~> (threads[t].pc # "acquire" \/ lock_objs[threads[t].lock] = "free")
    /\ (\A t \in Threads : SF_vars(LockAcquire(t))) => C36_EveryCallReturns

\* a write has failed inside the section (the thread is about to leave `with lock:`
\* by the exception) while the other thread waits for the same Lock object
C36_Witness ==
    \E t, w \in Threads :
        /\ threads[t].pc = "release" /\ threads[t].raised
        /\ threads[w].pc = "acquire" /\ threads[w].lock = threads[t].lock
        /\ lock_objs[threads[t].lock] = t

\* ---------------------------------------------------------------- C37
\* the key -> ids mapping of every bucket file is the same in ix and jx (a missing
\* file and a file holding {} are the same mapping)
SameMappings(ix, jx) ==
    \A p \in DOMAIN ix \cup DOMAIN jx : LoadIndex(ix, p) = LoadIndex(jx, p)

\* the three laws for one index: Add and Remove are its methods, Has tells whether
\* the pair is in the index
AddRemoveLaws(ix, values, Add(_, _, _), Remove(_, _, _), Has(_, _, _)) ==
    \A value \in values, uuid \in Uuids :
        /\ SameMappings(Add(Add(ix, value, uuid), value, uuid), Add(ix, value, uuid))
        /\ ~Has(ix, value, uuid) =>
               /\ SameMappings(Remove(Add(ix, value, uuid), value, uuid), ix)
               /\ SameMappings(Remove(ix, value, uuid), ix)

\* C37: for every value that is not blank and every uuid, on the prefix, the hash and
\* the date index: adding the pair twice gives the buckets that adding it once gives;
\* when the pair is not in the index, adding and then removing it gives back the
\* key -> ids mapping of every bucket, and removing it changes no mapping.
C37_AddRemoveLaws ==
    /\ AddRemoveLaws(index_files, {v \in TrieValues : ~IsBlank(v)},
           LAMBDA ix, v, u : AddToTrieIndex(ix, INDEX_NOTE_TITLE, v, u),
           LAMBDA ix, v, u : RemoveFromTrieIndex(ix, INDEX_NOTE_TITLE, v, u),
           LAMBDA ix, v, u :
               InList(u, DictGet(LoadIndex(ix, GetTriePath(INDEX_NOTE_TITLE, v)),
                                 Normalize(v), <<>>)))
    /\ AddRemoveLaws(index_files, {v \in HashValues : ~IsBlank(v)},
           LAMBDA ix, v, u : AddToHashIndex(ix, INDEX_CONTACT_PHONE, v, u),
           LAMBDA ix, v, u : RemoveFromHashIndex(ix, INDEX_CONTACT_PHONE, v, u),
           LAMBDA ix, v, u :
               InList(u, SearchByExactMatch(ix, INDEX_CONTACT_PHONE, v)))
    /\ AddRemoveLaws(index_files, IndexDates,
           LAMBDA ix, v, u : AddToDateIndex(ix, INDEX_NOTE_CREATION_DATE, v, u),
           LAMBDA ix, v, u : RemoveFromDateIndex(ix, INDEX_NOTE_CREATION_DATE, v, u),
           LAMBDA ix, v, u :
               InList(u, DictGet(LoadIndex(ix, GetDatePath(INDEX_NOTE_CREATION_DATE, v)),
                                 "uuids", <<>>)))

\* each of the three indexes lists "u2" and not "u1" under a value, and the prefix
\* bucket holds a second key: adding and removing "u1" has a mapping to give back
C37_Witness ==
    /\ LoadIndex(index_files, GetTriePath(INDEX_NOTE_TITLE, <<"J", "o">>))
         = (<<"j", "o">> :> <<"u2">>) @@ (<<"j", "o", "n">> :> <<"u1", "u2">>)
    /\ SearchByExactMatch(index_files, INDEX_CONTACT_PHONE, <<"1", "6", "1">>) = <<"u2">>
    /\ LoadIndex(index_files, GetDatePath(INDEX_NOTE_CREATION_DATE, T1))
         = [uuids |-> <<"u2">>]

\* ---------------------------------------------------------------- C38
\* C38: for every value, the bucket file that add, remove and search of the prefix
\* index compute lies inside index_root/<index_name>/: no file outside the directory
\* of the index is written, and no file or directory outside it is read.
C38_PathsInsideIndexDirectory ==
    /\ \A p \in DOMAIN index_files : p[1] = INDEX_NOTE_TITLE
    /\ last.op = "search_by_prefix" =>
           \A p \in SearchPaths(INDEX_NOTE_TITLE, last.arg) : p[1] = INDEX_NOTE_TITLE

====
